---------------------------- MODULE Spec2Model ----------------------------
(***************************************************************************)
(* A model of the stg-live-messenger server (src/src/server.py) with the   *)
(* primitives it composes: password.py (hash prefix, key derivation,       *)
(* DES-CBC), steganography.py (LSB codec) and Python's base64 decoder.     *)
(*                                                                         *)
(* Abstractions:                                                           *)
(*  - PBKDF2 and DES are ideal: a derived key is the pair (salt, password  *)
(*    hash) it was derived from, a ciphertext is the triple (iv, key,      *)
(*    plaintext).  Decrypting under another key either fails on the        *)
(*    padding or yields garbage: both outcomes are kept.                   *)
(*  - A PNG file is the raster it decodes to; base64 of a PNG file or of   *)
(*    a ciphertext is a tagged wrapper, base64 of a hash is the real       *)
(*    alphabet-level text.                                                 *)
(*  - The logger never fails.                                              *)
(***************************************************************************)
EXTENDS Integers, Sequences, FiniteSets, TLC

(***************************************************************************)
(* Program constants                                                       *)
(***************************************************************************)
HashLen == 32
PrefixLen == 8
LengthBits == 16
PayloadBits == 256
RequiredBits == 272
MinBlobLen == 16
BlockSize == 8

(***************************************************************************)
(* Bounds of the model                                                     *)
(***************************************************************************)
MaxMailbox == 3

(***************************************************************************)
(* JSON field values.  A field is absent/null, a string, a number or an    *)
(* array.  Strings that carry base64 are "txt" (a sequence of characters:  *)
(* 0..63 the base64 alphabet, 64 the pad '=', 65 any other character),     *)
(* "png" (base64 of a PNG file holding raster v) or "blob" (base64 of the  *)
(* ciphertext v).                                                          *)
(***************************************************************************)
NoImage == [width |-> 0, height |-> 0, px |-> <<>>]
NoBlob == [iv |-> 0, key |-> [salt |-> "", pw |-> <<>>], pt |-> ""]
Value(t, s, cs, img, blob) == [t |-> t, s |-> s, cs |-> cs, img |-> img, blob |-> blob]

NULL == Value("null", "", <<>>, NoImage, NoBlob)
Str(s) == Value("str", s, <<>>, NoImage, NoBlob)
Num(s) == Value("num", s, <<>>, NoImage, NoBlob)
List == Value("list", "", <<>>, NoImage, NoBlob)
Txt(cs) == Value("txt", "", cs, NoImage, NoBlob)
Png(img) == Value("png", "", <<>>, img, NoBlob)
Blob(b) == Value("blob", "", <<>>, NoImage, b)

PAD == 64
JUNK == 65

\* Python truthiness of a JSON value: `not x` is true for None and "".  List
\* is a non-empty array, which is truthy.
Truthy(x) ==
  CASE x.t = "null" -> FALSE
    [] x.t = "str" -> x.s # ""
    [] x.t = "txt" -> Len(x.cs) > 0
    [] OTHER -> TRUE

\* str(x) for a value bound to a TEXT column or formatted into a path.
PyStr(x) == x.s

(***************************************************************************)
(* base64                                                                  *)
(***************************************************************************)
Ok(v) == [ok |-> TRUE, val |-> v, err |-> ""]
Err(msg) == [ok |-> FALSE, val |-> <<>>, err |-> msg]

RECURSIVE b2a_base64(_)
b2a_base64(bs) ==
  IF Len(bs) = 0 THEN <<>>
  ELSE IF Len(bs) = 1 THEN
    << bs[1] \div 4, (bs[1] % 4) * 16, PAD, PAD >>
  ELSE IF Len(bs) = 2 THEN
    << bs[1] \div 4, (bs[1] % 4) * 16 + bs[2] \div 16, (bs[2] % 16) * 4, PAD >>
  ELSE
    << bs[1] \div 4, (bs[1] % 4) * 16 + bs[2] \div 16,
       (bs[2] % 16) * 4 + bs[3] \div 64, bs[3] % 64 >>
      \o b2a_base64(SubSeq(bs, 4, Len(bs)))

\* base64.b64encode(bytes).decode(): the text of a byte string.
b64encode(bs) == Txt(b2a_base64(bs))

\* binascii.a2b_base64, non-strict: characters outside the alphabet are
\* skipped, a completed pad sequence ends the parse, a dangling group is an
\* error.  i: next character, qp: position in the quad, pads: pads seen in
\* this quad, left: bits carried, out: bytes so far.
RECURSIVE a2b_base64(_, _, _, _, _, _)
a2b_base64(cs, i, qp, pads, left, out) ==
  IF i > Len(cs) THEN
    IF qp = 0 THEN Ok(out)
    ELSE IF qp = 1 THEN Err("Invalid base64-encoded string")
    ELSE Err("Incorrect padding")
  ELSE IF cs[i] = PAD THEN
    IF qp >= 2 /\ qp + pads + 1 >= 4 THEN Ok(out)
    ELSE a2b_base64(cs, i + 1, qp, IF qp >= 2 THEN pads + 1 ELSE pads, left, out)
  ELSE IF cs[i] >= 64 THEN a2b_base64(cs, i + 1, qp, pads, left, out)
  ELSE
    CASE qp = 0 -> a2b_base64(cs, i + 1, 1, 0, cs[i], out)
      [] qp = 1 -> a2b_base64(cs, i + 1, 2, 0, cs[i] % 16,
                              Append(out, left * 4 + cs[i] \div 16))
      [] qp = 2 -> a2b_base64(cs, i + 1, 3, 0, cs[i] % 4,
                              Append(out, left * 16 + cs[i] \div 4))
      [] OTHER  -> a2b_base64(cs, i + 1, 0, 0, 0,
                              Append(out, left * 64 + cs[i]))

\* Byte strings: Bytes(seq) is a concrete string of bytes 0..255; the bytes of
\* a PNG file and of a ciphertext stand for themselves.
Bytes(bs) == Value("bytes", "", bs, NoImage, NoBlob)
PngFile(img) == Value("pngfile", "", <<>>, img, NoBlob)
Cipher(b) == Value("cipher", "", <<>>, NoImage, b)

\* base64.b64decode(x): a TypeError for anything that is not a string.
b64decode(x) ==
  CASE x.t = "txt" ->
         LET r == a2b_base64(x.cs, 1, 0, 0, 0, <<>>)
         IN  IF r.ok THEN Ok(Bytes(r.val)) ELSE r
    [] x.t = "png" -> Ok(PngFile(x.img))
    [] x.t = "blob" -> Ok(Cipher(x.blob))
    [] x.t = "null" -> Err("argument should be a bytes-like object or ASCII string, not 'NoneType'")
    [] x.t = "num" -> Err("argument should be a bytes-like object or ASCII string, not 'int'")
    [] OTHER -> Err("argument should be a bytes-like object or ASCII string, not 'list'")

(***************************************************************************)
(* steganography.py.  A raster is [width, height, px], px the channel      *)
(* bytes in raster order, three (R, G, B) per pixel.                       *)
(***************************************************************************)
\* pixels[x, y][channel] for bit slot bit_index, as the codec indexes it.
SlotX(bit_index, width) == (bit_index \div 3) % width
SlotY(bit_index, width) == (bit_index \div 3) \div width
SlotIndex(bit_index, width) ==
  (SlotY(bit_index, width) * width + SlotX(bit_index, width)) * 3
    + (bit_index % 3) + 1

\* format(n, '0<w>b'): w bits, most significant first.
RECURSIVE ToBits(_, _)
ToBits(n, w) == IF w = 0 THEN <<>> ELSE Append(ToBits(n \div 2, w - 1), n % 2)

\* int(bits, 2)
RECURSIVE FromBits(_)
FromBits(bits) ==
  IF Len(bits) = 0 THEN 0
  ELSE 2 * FromBits(SubSeq(bits, 1, Len(bits) - 1)) + bits[Len(bits)]

\* the bits of each byte least significant first
HashBinary_lsb_first(bs) ==
  [i \in 1..(8 * Len(bs)) |-> ToBits(bs[((i - 1) \div 8) + 1], 8)[8 - ((i - 1) % 8)]]

\* ''.join(format(byte, '08b') for byte in password_hash)
HashBinary(bs) ==
  [i \in 1..(8 * Len(bs)) |-> ToBits(bs[((i - 1) \div 8) + 1], 8)[((i - 1) % 8) + 1]]

\* bytes(int(bits[i:i+8], 2) for i in range(0, len(bits), 8))
BitsToBytes(bits) ==
  [i \in 1..((Len(bits) + 7) \div 8) |->
     FromBits(SubSeq(bits, 8 * (i - 1) + 1, IF 8 * i < Len(bits) THEN 8 * i ELSE Len(bits)))]

\* a capacity test in whole pixels, rounded down
validate_image_size_pixels(img, required_bits) ==
  img.width * img.height >= required_bits \div 3

validate_image_size(img, required_bits) ==
  img.width * img.height * 3 >= required_bits

\* Writing with the mask 0xFC: the two low bits of a slot are cleared before
\* the bit is set.
WriteBits_two_bits(px, bits, bit_index, width) ==
  LET at == [i \in DOMAIN bits |-> SlotIndex(bit_index + i - 1, width)]
      writers(k) == {i \in DOMAIN bits : at[i] = k}
      last(k) == CHOOSE i \in writers(k) : \A j \in writers(k) : j <= i
  IN  [k \in DOMAIN px |->
         IF writers(k) = {} THEN px[k] ELSE (px[k] - (px[k] % 4)) + bits[last(k)]]

\* pixel[channel] = (pixel[channel] & 0xFE) | bit, for each bit in turn from
\* slot bit_index on; the last write to a channel byte stands.
WriteBits(px, bits, bit_index, width) ==
  LET at == [i \in DOMAIN bits |-> SlotIndex(bit_index + i - 1, width)]
      writers(k) == {i \in DOMAIN bits : at[i] = k}
      last(k) == CHOOSE i \in writers(k) : \A j \in writers(k) : j <= i
  IN  [k \in DOMAIN px |->
         IF writers(k) = {} THEN px[k] ELSE (px[k] - (px[k] % 2)) + bits[last(k)]]

encode_hash_in_image(img, password_hash) ==
  IF ~validate_image_size(img, RequiredBits) THEN Err("Image too small")
  ELSE LET hash_binary == HashBinary(password_hash)
           length_bits == ToBits(Len(hash_binary), LengthBits)
       IN  Ok([img EXCEPT !.px = WriteBits(@, length_bits \o hash_binary, 0, img.width)])

\* pixel[channel] & 0x01 for n slots from bit_index; an IndexError when a slot
\* lies outside the raster.
ReadBits(img, bit_index, n) ==
  IF \E i \in 0..(n - 1) : SlotY(bit_index + i, img.width) >= img.height
    THEN Err("image index out of range")
  ELSE Ok([i \in 1..n |-> img.px[SlotIndex(bit_index + i - 1, img.width)] % 2])

\* a decoder that reads 256 payload bits whatever the length field says
decode_hash_from_image_unchecked(img) ==
  LET bits == ReadBits(img, LengthBits, PayloadBits)
  IN  IF ~bits.ok THEN bits ELSE Ok(BitsToBytes(bits.val))

decode_hash_from_image(img) ==
  LET len == ReadBits(img, 0, LengthBits)
  IN  IF ~len.ok THEN len
      ELSE IF FromBits(len.val) # PayloadBits THEN Err("Invalid hash length")
      ELSE LET bits == ReadBits(img, LengthBits, FromBits(len.val))
           IN  IF ~bits.ok THEN bits
               ELSE IF Len(BitsToBytes(bits.val)) # HashLen THEN Err("Invalid hash size")
               ELSE Ok(BitsToBytes(bits.val))

(***************************************************************************)
(* password.py                                                             *)
(***************************************************************************)
\* password_hash[:16]
get_password_hash_prefix_16(password_hash) ==
  SubSeq(password_hash, 1, IF Len(password_hash) < 16 THEN Len(password_hash) ELSE 16)

\* password_hash[:8]
get_password_hash_prefix(password_hash) ==
  SubSeq(password_hash, 1, IF Len(password_hash) < PrefixLen THEN Len(password_hash) ELSE PrefixLen)

\* PBKDF2-HMAC-SHA256(password_hash, salt = username): an AttributeError when
\* username is not a string (it has no encode()).
derive_des_key(username, password_hash) ==
  IF username.t # "str" THEN Err("object has no attribute 'encode'")
  ELSE Ok([salt |-> username.s, pw |-> password_hash])

\* the salt left out of the derivation
derive_des_key_unsalted(username, password_hash) ==
  derive_des_key(Str(""), password_hash)

derive_des_key_from_hash(username, password_hash) ==
  derive_des_key(username, password_hash)

\* len(pad(plaintext.encode(), 8)) + 8
PlainLen(p) ==
  CASE p = "" -> 0
    [] p = "hello" -> 5
    [] p = "Welcome to STG Live Messenger!" -> 30
    [] OTHER -> 7
BlobLen(b) == BlockSize + ((PlainLen(b.pt) \div BlockSize) + 1) * BlockSize

\* iv + DES-CBC(key, pad(plaintext)) for the IV get_random_bytes returned.
encrypt_des_cbc(des_key, plaintext, iv) ==
  [iv |-> iv, key |-> des_key, pt |-> plaintext]

Garbage == "<garbage>"

\* a string result, or the exception raised instead
Returned(str) == [ok |-> TRUE, val |-> str, err |-> ""]
Raised(msg) == [ok |-> FALSE, val |-> "", err |-> msg]

\* The results decrypt_des_cbc may have on a byte string.  Under the key that
\* made the ciphertext: the plaintext.  Under another key: unpad raises on
\* nearly every input and returns garbage on the rest.
decrypt_des_cbc(des_key, raw) ==
  CASE raw.t = "cipher" ->
         IF BlobLen(raw.blob) < MinBlobLen THEN {Raised("Invalid iv+ciphertext input")}
         ELSE IF raw.blob.key = des_key THEN {Returned(raw.blob.pt)}
         ELSE {Raised("Padding is incorrect."), Returned(Garbage)}
    [] raw.t = "bytes" ->
         IF Len(raw.cs) < MinBlobLen THEN {Raised("Invalid iv+ciphertext input")}
         ELSE IF Len(raw.cs) % BlockSize # 0
           THEN {Raised("Data must be padded to 8 byte boundary in CBC mode")}
         ELSE {Raised("Padding is incorrect."), Returned(Garbage)}
    [] OTHER -> {Raised("Invalid iv+ciphertext input")}

(***************************************************************************)
(* password.py, byte by byte.  A str is the sequence of its code points, a *)
(* bytes object the sequence of its bytes.  DES itself is a keyed          *)
(* permutation of 8-byte blocks; the model uses a permutation of its own   *)
(* (rotate the block by one byte, add the key byte-wise), and keeps the    *)
(* UTF-8 codec, the PKCS#7 padding, the CBC chaining and the length checks *)
(* as the code and its libraries compute them.                             *)
(***************************************************************************)
\* one code point (below 0x10000, not a surrogate) as UTF-8
Utf8Char(c) ==
  IF c < 128 THEN <<c>>
  ELSE IF c < 2048 THEN <<192 + (c \div 64), 128 + (c % 64)>>
  ELSE <<224 + (c \div 4096), 128 + ((c \div 64) % 64), 128 + (c % 64)>>

\* str.encode('utf-8')
RECURSIVE utf8_encode(_)
utf8_encode(str) ==
  IF str = <<>> THEN <<>> ELSE Utf8Char(Head(str)) \o utf8_encode(Tail(str))

IsContinuation(b) == b >= 128 /\ b < 192

\* bytes.decode('utf-8'): a UnicodeDecodeError on anything that is not UTF-8
RECURSIVE utf8_decode(_)
utf8_decode(bs) ==
  IF bs = <<>> THEN Ok(<<>>)
  ELSE LET b == bs[1]
           n == IF b < 128 THEN 1
                ELSE IF b >= 194 /\ b < 224 THEN 2
                ELSE IF b >= 224 /\ b < 240 THEN 3
                ELSE 0
           cp == IF n = 1 THEN b
                 ELSE IF n = 2 THEN (b - 192) * 64 + (bs[2] - 128)
                 ELSE (b - 224) * 4096 + (bs[2] - 128) * 64 + (bs[3] - 128)
       IN  IF n = 0 \/ Len(bs) < n
             THEN Err("'utf-8' codec can't decode byte")
           ELSE IF \E i \in 2..n : ~IsContinuation(bs[i])
             THEN Err("'utf-8' codec can't decode byte")
           ELSE IF n = 3 /\ (cp < 2048 \/ (cp >= 55296 /\ cp < 57344))
             THEN Err("'utf-8' codec can't decode byte")
           ELSE LET rest == utf8_decode(SubSeq(bs, n + 1, Len(bs)))
                IN  IF rest.ok THEN Ok(<<cp>> \o rest.val) ELSE rest

\* a ^ b on bytes
RECURSIVE Xor(_, _)
Xor(a, b) ==
  IF a = 0 /\ b = 0 THEN 0 ELSE ((a + b) % 2) + 2 * Xor(a \div 2, b \div 2)

strxor(x, y) == [i \in 1..BlockSize |-> Xor(x[i], y[i])]

\* the block permutation under des_key and its inverse
DesBlockEncrypt(des_key, block) ==
  [i \in 1..BlockSize |-> (block[(i % BlockSize) + 1] + des_key[i]) % 256]
DesBlockDecrypt(des_key, block) ==
  [j \in 1..BlockSize |->
     LET i == ((j + BlockSize - 2) % BlockSize) + 1
     IN  (block[i] + 256 - des_key[i]) % 256]

\* padding that adds nothing to data that already fills its blocks
pad_to_boundary(data, block_size) ==
  IF Len(data) % block_size = 0 THEN data
  ELSE LET padding_len == block_size - (Len(data) % block_size)
       IN  data \o [i \in 1..padding_len |-> padding_len]

\* Crypto.Util.Padding.pad(data, block_size), PKCS#7
pad(data, block_size) ==
  LET padding_len == block_size - (Len(data) % block_size)
  IN  data \o [i \in 1..padding_len |-> padding_len]

\* Crypto.Util.Padding.unpad(padded_data, block_size), PKCS#7
unpad(padded_data, block_size) ==
  LET pdata_len == Len(padded_data)
      padding_len == padded_data[pdata_len]
  IN  IF pdata_len = 0 THEN Err("Zero-length input cannot be unpadded")
      ELSE IF pdata_len % block_size # 0 THEN Err("Input data is not padded")
      ELSE IF padding_len < 1 \/ padding_len > block_size
        THEN Err("Padding is incorrect.")
      ELSE IF \E i \in (pdata_len - padding_len + 1)..pdata_len :
                padded_data[i] # padding_len
        THEN Err("PKCS#7 padding is incorrect.")
      ELSE Ok(SubSeq(padded_data, 1, pdata_len - padding_len))

\* cipher.encrypt(data) in CBC mode: each block is XORed with the previous
\* ciphertext block (the IV at first) and then encrypted
RECURSIVE cbc_encrypt(_, _, _)
cbc_encrypt(des_key, previous, data) ==
  IF data = <<>> THEN <<>>
  ELSE LET block == DesBlockEncrypt(des_key, strxor(SubSeq(data, 1, BlockSize), previous))
       IN  block \o cbc_encrypt(des_key, block, SubSeq(data, BlockSize + 1, Len(data)))

\* cipher.decrypt(ct) in CBC mode
RECURSIVE cbc_decrypt(_, _, _)
cbc_decrypt(des_key, previous, ct) ==
  IF ct = <<>> THEN <<>>
  ELSE LET block == SubSeq(ct, 1, BlockSize)
       IN  strxor(DesBlockDecrypt(des_key, block), previous)
             \o cbc_decrypt(des_key, block, SubSeq(ct, BlockSize + 1, Len(ct)))

\* encrypt_des_cbc on bytes, for the IV get_random_bytes(8) returned
encrypt_des_cbc_bytes(des_key, plaintext, iv) ==
  IF Len(des_key) # 8 THEN Err("DES key must be 8 bytes")
  ELSE LET data == utf8_encode(plaintext)
           ct == cbc_encrypt(des_key, iv, pad(data, BlockSize))
       IN  Ok(iv \o ct)

\* decrypt_des_cbc on bytes
decrypt_des_cbc_bytes(des_key, iv_ciphertext) ==
  IF Len(des_key) # 8 THEN Err("DES key must be 8 bytes")
  ELSE IF Len(iv_ciphertext) < MinBlobLen THEN Err("Invalid iv+ciphertext input")
  ELSE LET iv == SubSeq(iv_ciphertext, 1, 8)
           ct == SubSeq(iv_ciphertext, 9, Len(iv_ciphertext))
       IN  IF Len(ct) % BlockSize # 0
             THEN Err("Data must be padded to 8 byte boundary in CBC mode")
           ELSE LET pt == unpad(cbc_decrypt(des_key, iv, ct), BlockSize)
                IN  IF pt.ok THEN utf8_decode(pt.val) ELSE pt

(***************************************************************************)
(* Inputs: the hashes, rasters and requests clients may put on the wire.   *)
(***************************************************************************)
CoverWidth == 10
CoverHeight == 10

Ha == [i \in 1..HashLen |-> (i * 7 + 1) % 256]
\* a hash whose second 8-byte block repeats the first
Hb == [i \in 1..HashLen |-> ((i - 1) % PrefixLen) * 9 + 5]
Hashes == {Ha, Hb}

\* a raster that carries no payload: its first 16 LSBs do not spell 256
Cover == [width |-> CoverWidth, height |-> CoverHeight,
          px |-> [k \in 1..(CoverWidth * CoverHeight * 3) |-> (k * 5) % 256]]
StegoA == encode_hash_in_image(Cover, Ha).val

\* IVs are nonces: a client's IV is 0, the server's n-th get_random_bytes(8)
\* returns n.
ClientIV == 0
ServerIV(S) == S + 1
Times == {"2025-01-01T00:00:00Z"}
WelcomeText == "Welcome to STG Live Messenger!"

Alice == Str("alice")
Bob == Str("bob")
Five == Num("5")

\* what Client.send_message puts in "body" for a session holding (u, h)
ClientBody(u, h, p) ==
  Blob(encrypt_des_cbc(derive_des_key(u, h).val, p, ClientIV))

PictureInputs == {Png(StegoA), Png(Cover), b64encode(Ha), NULL}
HashInputs == {b64encode(Ha), b64encode(Hb), NULL, Txt(<<0>>)}
PrefixInputs ==
  {b64encode(SubSeq(Ha, 1, 8)), b64encode(SubSeq(Ha, 9, 16)), b64encode(Ha),
   b64encode(SubSeq(Hb, 9, 16)), b64encode(Hb), Txt(<<0>>), NULL}
BodyInputs ==
  {ClientBody(u, h, "hello") : u \in {Alice, Bob}, h \in Hashes}
    \cup {b64encode(SubSeq(Ha, 1, 8)), NULL}

Object(action) ==
  [kind |-> "object", action |-> action, username |-> NULL,
   password_hash |-> NULL, picture |-> NULL, password_hash_prefix |-> NULL,
   from |-> NULL, to |-> NULL, body |-> NULL]

Register(u, p, h) ==
  [Object("REQ::REGISTER") EXCEPT !.username = u, !.picture = p, !.password_hash = h]
Login(u, x) ==
  [Object("REQ::LOGIN") EXCEPT !.username = u, !.password_hash_prefix = x]
Send(s, r, b) ==
  [Object("REQ::SEND") EXCEPT !.from = s, !.to = r, !.body = b]

RegisterRequests ==
  {Register(u, p, h) : u \in {Alice, Bob}, p \in PictureInputs, h \in HashInputs}
    \cup {Register(u, Png(StegoA), b64encode(Ha)) : u \in {Five, NULL, List}}
LoginRequests ==
  {Login(u, x) : u \in {Alice, Bob}, x \in PrefixInputs}
    \cup {Login(u, b64encode(SubSeq(Ha, 1, 8))) : u \in {NULL, List}}
SendRequests ==
  {Send(s, r, b) : s \in {Alice, Bob}, r \in {Alice, Bob}, b \in BodyInputs}
    \cup {Send(NULL, Alice, ClientBody(Alice, Ha, "hello")),
          Send(Alice, NULL, ClientBody(Alice, Ha, "hello"))}
FetchRequests ==
  {[Object("REQ::FETCH") EXCEPT !.username = u] : u \in {Alice, Bob, NULL, List}}
OtherRequests ==
  {Object("REQ::GET_USERS"), Object("REQ::BOGUS"), Object(""),
   [Object("") EXCEPT !.kind = "array"], [Object("") EXCEPT !.kind = "garbage"]}
Messages ==
  RegisterRequests \cup LoginRequests \cup SendRequests \cup FetchRequests
    \cup OtherRequests

NoMessage == [Object("") EXCEPT !.kind = "none"]

(***************************************************************************)
(* client.py: what Client.login puts on the wire.                          *)
(***************************************************************************)
Passwords == {"pw-a", "pw-b"}

\* hashlib.sha256(password.encode('utf-8')).digest(): an ideal hash
hash_password(password) == IF password = "pw-a" THEN Ha ELSE Hb

\* a login that sends the whole hash
login_request_full_hash(username, password) ==
  Login(username, b64encode(hash_password(password)))

\* Client.login, steps 1-3: the request dictionary
login_request(username, password) ==
  LET password_hash == hash_password(password)
      hash_prefix == get_password_hash_prefix(password_hash)
  IN  Login(username, b64encode(hash_prefix))

(***************************************************************************)
(* State                                                                   *)
(***************************************************************************)
VARIABLES
  users,        \* users table: username -> [password_hash, picture_path]
  mailbox,      \* mailbox table: rows in insertion order
  mailbox_seq,  \* the AUTOINCREMENT counter of mailbox.id
  running,      \* Server.running
  main_pc,      \* the control thread: "constructed", "serving", "join_service",
                \* "join_zeromq", "stopped", "exited"
  zmq_pc,       \* the request loop: "none", "loop", "poll", "received",
                \* "reply", "except", "closed"
  sock,         \* the REP socket: "recv" (may receive), "send" (owes a reply)
  message,      \* the message recv_string returned
  response,     \* the reply about to be sent
  svc_pc,       \* the advertisement thread: "none", "registering", "advertising",
                \* "unregistering", "ended", "failed"
  svc_stop,     \* ServiceRegister.stop
  succeeded,    \* history: usernames whose REGISTER was answered with success
  unanswered,   \* history: requests received and not yet replied to
  login_seen,   \* history: some LOGIN request has been answered
  des,          \* a caller of password.py's cipher: its arguments and results
  steg,         \* a caller of steganography.py: the image file, the payload,
                \* the output file and what decode returned
  found_services, \* AllServicesListener.found_services
  browser,      \* Client.discover_servers: its position and, per service name,
                \* the last event the browser delivered (history)
  servers,      \* the list discover_servers returned
  session,      \* a Client: current_username, des_key, and (history) the last
                \* call, what it returned and what the session held before it
  spawned       \* history: calls of start(), request-loop threads and
                \* advertisement threads started

serverVars == <<users, mailbox, mailbox_seq, running, main_pc, zmq_pc, sock, message,
                response, svc_pc, svc_stop, succeeded, unanswered, login_seen, spawned>>
clientVars == <<des, steg, found_services, browser, servers, session>>
vars == <<serverVars, clientVars>>

(***************************************************************************)
(* Replies                                                                 *)
(***************************************************************************)
Reply(status, msg) ==
  [keys |-> {"status", "message"}, status |-> status, message |-> msg,
   messages |-> <<>>, users |-> <<>>]
\* an error reply that carries no message
Error_bare(msg) ==
  [keys |-> {"status"}, status |-> "error", message |-> "", messages |-> <<>>, users |-> <<>>]
Error(msg) == Reply("error", msg)
Success(msg) == Reply("success", msg)
NoResponse == [keys |-> {}, status |-> "", message |-> "", messages |-> <<>>, users |-> <<>>]

\* What a handler leaves behind: its reply and the two tables.
Outcome(resp, U, M, S) == [response |-> resp, users |-> U, mailbox |-> M, mailbox_seq |-> S]

(***************************************************************************)
(* sqlite                                                                  *)
(***************************************************************************)
\* Binding a parameter: an array is refused (ProgrammingError).
Bindable(x) == x.t # "list"
\* WHERE username = ?  against the TEXT column: a number is compared as text,
\* NULL equals nothing.
HasUser(U, x) == x.t \in {"str", "num"} /\ PyStr(x) \in DOMAIN U

\* INSERT INTO mailbox: id is one more than the largest id ever used.
InsertMail(M, S, to, frm, body, now) ==
  [mailbox |-> Append(M, [id |-> S + 1, to_username |-> to, from_username |-> frm,
                          body |-> body, created_at |-> now]),
   mailbox_seq |-> S + 1]

PicturePath(username) == <<"images", PyStr(username), ".png">>

(***************************************************************************)
(* server.py: the handlers.  Each is the set of outcomes the handler may   *)
(* have on request against users table U, mailbox M and id counter S.      *)
(***************************************************************************)
\* None (here: a failed result) when the user is unknown or anything raises.
get_user_des_key(username, U) ==
  IF ~Bindable(username) \/ ~HasUser(U, username) THEN Err("None")
  ELSE LET stored_hash == b64decode(U[PyStr(username)].password_hash)
       IN  IF ~stored_hash.ok THEN Err("None")
           ELSE derive_des_key_from_hash(username, stored_hash.val.cs)

\* SELECT username FROM users WHERE username = ?  finds no row
UsernameTaken_never(U, username) == FALSE

\* SELECT username FROM users WHERE username = ?  finds a row
UsernameTaken(U, username) == HasUser(U, username)

\* A registration that inserts the row before it looks at the picture.
handle_register_insert_first(request, U, M, S) ==
  LET username == request.username
      password_hash_b64 == request.password_hash
      picture_base64 == request.picture
      picture_data == b64decode(picture_base64)
      decoded_hash == decode_hash_from_image(picture_data.val.img)
      received_hash == b64decode(password_hash_b64)
      U2 == [u \in DOMAIN U \cup {PyStr(username)} |->
               IF u = PyStr(username)
               THEN [password_hash |-> password_hash_b64,
                     picture_path |-> PicturePath(username)]
               ELSE U[u]]
      des_key == get_user_des_key(username, U2)
  IN  IF ~Truthy(username) \/ ~Truthy(picture_base64)
        THEN {Outcome(Error("Missing required fields"), U, M, S)}
      ELSE IF ~Bindable(username)
        THEN {Outcome(Error("Error binding parameter"), U, M, S)}
      ELSE IF UsernameTaken(U, username)
        THEN {Outcome(Error("Username already exists"), U, M, S)}
      ELSE IF ~picture_data.ok
        THEN {Outcome(Error("Error processing picture: " \o picture_data.err), U2, M, S)}
      ELSE IF picture_data.val.t # "pngfile"
        THEN {Outcome(Error("Error processing picture: cannot identify image file"), U2, M, S)}
      ELSE IF ~decoded_hash.ok
        THEN {Outcome(Error("Failed to decode hash from picture: " \o decoded_hash.err), U2, M, S)}
      ELSE IF ~received_hash.ok
        THEN {Outcome(Error("Error processing picture: " \o received_hash.err), U2, M, S)}
      ELSE IF des_key.ok
        THEN {LET ins == InsertMail(M, S, PyStr(username), "server",
                                    encrypt_des_cbc(des_key.val, WelcomeText, iv), now)
              IN  Outcome(Success("Registration successful"), U2, ins.mailbox, ins.mailbox_seq) :
                iv \in {ServerIV(S)}, now \in Times}
      ELSE {Outcome(Success("Registration successful"), U2, M, S)}

handle_register(request, U, M, S) ==
  LET username == request.username
      password_hash_b64 == request.password_hash
      picture_base64 == request.picture
      picture_data == b64decode(picture_base64)
      decoded_hash == decode_hash_from_image(picture_data.val.img)
      received_hash == b64decode(password_hash_b64)
      U2 == [u \in DOMAIN U \cup {PyStr(username)} |->
               IF u = PyStr(username)
               THEN [password_hash |-> password_hash_b64,
                     picture_path |-> PicturePath(username)]
               ELSE U[u]]
      des_key == get_user_des_key(username, U2)
  IN  IF ~Truthy(username) \/ ~Truthy(picture_base64)
        THEN {Outcome(Error("Missing required fields"), U, M, S)}
      ELSE IF ~Bindable(username)
        THEN {Outcome(Error("Error binding parameter"), U, M, S)}
      ELSE IF UsernameTaken(U, username)
        THEN {Outcome(Error("Username already exists"), U, M, S)}
      ELSE IF ~picture_data.ok
        THEN {Outcome(Error("Error processing picture: " \o picture_data.err), U, M, S)}
      ELSE IF picture_data.val.t # "pngfile"
        THEN {Outcome(Error("Error processing picture: cannot identify image file"), U, M, S)}
      ELSE IF ~decoded_hash.ok
        THEN {Outcome(Error("Failed to decode hash from picture: " \o decoded_hash.err), U, M, S)}
      ELSE IF ~received_hash.ok
        THEN {Outcome(Error("Error processing picture: " \o received_hash.err), U, M, S)}
      ELSE IF des_key.ok
        THEN {LET ins == InsertMail(M, S, PyStr(username), "server",
                                    encrypt_des_cbc(des_key.val, WelcomeText, iv), now)
              IN  Outcome(Success("Registration successful"), U2, ins.mailbox, ins.mailbox_seq) :
                iv \in {ServerIV(S)}, now \in Times}
      ELSE {Outcome(Success("Registration successful"), U2, M, S)}

handle_login(request, U, M, S) ==
  LET username == request.username
      hash_prefix_b64 == request.password_hash_prefix
      stored_hash == b64decode(U[PyStr(username)].password_hash)
      stored_hash_prefix == get_password_hash_prefix(stored_hash.val.cs)
      received_hash_prefix == b64decode(hash_prefix_b64)
  IN  IF ~Truthy(username) \/ ~Truthy(hash_prefix_b64)
        THEN {Outcome(Error("Missing username or password hash prefix"), U, M, S)}
      ELSE IF ~Bindable(username)
        THEN {Outcome(Error("Error binding parameter"), U, M, S)}
      ELSE IF ~HasUser(U, username)
        THEN {Outcome(Error("Invalid username or password"), U, M, S)}
      ELSE IF ~stored_hash.ok
        THEN {Outcome(Error(stored_hash.err), U, M, S)}
      ELSE IF ~received_hash_prefix.ok
        THEN {Outcome(Error(received_hash_prefix.err), U, M, S)}
      ELSE IF stored_hash_prefix # received_hash_prefix.val.cs
        THEN {Outcome(Error("Invalid username or password"), U, M, S)}
      ELSE {Outcome(Success("Login successful"), U, M, S)}

\* a relay that stores the body as received before it has decrypted it
handle_send_store_first(request, U, M, S) ==
  LET sender_key == get_user_des_key(request.from, U)
      recipient_key == get_user_des_key(request.to, U)
      encrypted_body == b64decode(request.body)
      raw == InsertMail(M, S, PyStr(request.to), PyStr(request.from),
                        encrypted_body.val.blob, "2025-01-01T00:00:00Z")
  IN  IF ~Truthy(request.from) \/ ~Truthy(request.to) \/ request.body.t = "null"
        THEN {Outcome(Error("Missing fields"), U, M, S)}
      ELSE IF ~sender_key.ok
        THEN {Outcome(Error("Sender not found or key unavailable"), U, M, S)}
      ELSE IF ~recipient_key.ok
        THEN {Outcome(Error("Recipient not found or key unavailable"), U, M, S)}
      ELSE IF ~encrypted_body.ok
        THEN {Outcome(Error("Server could not decrypt message with sender key"), U, M, S)}
      ELSE {IF plaintext_body.ok
              THEN Outcome(Success("Message stored"), U, raw.mailbox, raw.mailbox_seq)
              ELSE Outcome(Error("Server could not decrypt message with sender key"),
                           U, raw.mailbox, raw.mailbox_seq) :
            plaintext_body \in decrypt_des_cbc(sender_key.val, encrypted_body.val)}

\* a relay that checks the body under the sender's key and stores it as received
handle_send_verbatim(request, U, M, S) ==
  LET sender_key == get_user_des_key(request.from, U)
      recipient_key == get_user_des_key(request.to, U)
      encrypted_body == b64decode(request.body)
  IN  IF ~Truthy(request.from) \/ ~Truthy(request.to) \/ request.body.t = "null"
        THEN {Outcome(Error("Missing fields"), U, M, S)}
      ELSE IF ~sender_key.ok
        THEN {Outcome(Error("Sender not found or key unavailable"), U, M, S)}
      ELSE IF ~recipient_key.ok
        THEN {Outcome(Error("Recipient not found or key unavailable"), U, M, S)}
      ELSE IF ~encrypted_body.ok \/ encrypted_body.val.t # "cipher"
        THEN {Outcome(Error("Server could not decrypt message with sender key"), U, M, S)}
      ELSE {IF plaintext_body.ok
              THEN LET ins == InsertMail(M, S, PyStr(request.to), PyStr(request.from),
                                         encrypted_body.val.blob, "2025-01-01T00:00:00Z")
                   IN  Outcome(Success("Message stored"), U, ins.mailbox, ins.mailbox_seq)
              ELSE Outcome(Error("Server could not decrypt message with sender key"), U, M, S) :
            plaintext_body \in decrypt_des_cbc(sender_key.val, encrypted_body.val)}

\* A SEND that does not look the recipient up: for an unknown recipient
\* the envelope is stored under the sender's key.
handle_send_any_recipient(request, U, M, S) ==
  LET sender == request.from
      recipient == request.to
      body_b64 == request.body
      sender_key == get_user_des_key(sender, U)
      recipient_key == IF get_user_des_key(recipient, U).ok
                       THEN get_user_des_key(recipient, U)
                       ELSE sender_key
      encrypted_body == b64decode(body_b64)
  IN  IF ~Truthy(sender) \/ ~Truthy(recipient) \/ body_b64.t = "null"
        THEN {Outcome(Error("Missing fields"), U, M, S)}
      ELSE IF ~sender_key.ok
        THEN {Outcome(Error("Sender not found or key unavailable"), U, M, S)}
      ELSE IF ~recipient_key.ok
        THEN {Outcome(Error("Recipient not found or key unavailable"), U, M, S)}
      ELSE IF ~encrypted_body.ok
        THEN {Outcome(Error("Server could not decrypt message with sender key"), U, M, S)}
      ELSE UNION {
        IF ~plaintext_body.ok
          THEN {Outcome(Error("Server could not decrypt message with sender key"), U, M, S)}
        ELSE {LET ins == InsertMail(M, S, PyStr(recipient), PyStr(sender),
                                    encrypt_des_cbc(recipient_key.val, plaintext_body.val, iv),
                                    now)
              IN  Outcome(Success("Message stored"), U, ins.mailbox, ins.mailbox_seq) :
                iv \in {ServerIV(S)}, now \in Times} :
        plaintext_body \in decrypt_des_cbc(sender_key.val, encrypted_body.val)}

handle_send(request, U, M, S) ==
  LET sender == request.from
      recipient == request.to
      body_b64 == request.body
      sender_key == get_user_des_key(sender, U)
      recipient_key == get_user_des_key(recipient, U)
      encrypted_body == b64decode(body_b64)
  IN  IF ~Truthy(sender) \/ ~Truthy(recipient) \/ body_b64.t = "null"
        THEN {Outcome(Error("Missing fields"), U, M, S)}
      ELSE IF ~sender_key.ok
        THEN {Outcome(Error("Sender not found or key unavailable"), U, M, S)}
      ELSE IF ~recipient_key.ok
        THEN {Outcome(Error("Recipient not found or key unavailable"), U, M, S)}
      ELSE IF ~encrypted_body.ok
        THEN {Outcome(Error("Server could not decrypt message with sender key"), U, M, S)}
      ELSE UNION {
        IF ~plaintext_body.ok
          THEN {Outcome(Error("Server could not decrypt message with sender key"), U, M, S)}
        ELSE {LET ins == InsertMail(M, S, PyStr(recipient), PyStr(sender),
                                    encrypt_des_cbc(recipient_key.val, plaintext_body.val, iv),
                                    now)
              IN  Outcome(Success("Message stored"), U, ins.mailbox, ins.mailbox_seq) :
                iv \in {ServerIV(S)}, now \in Times} :
        plaintext_body \in decrypt_des_cbc(sender_key.val, encrypted_body.val)}

\* The orders in which SELECT without ORDER BY may return a set of rows.
Orders(set) ==
  {f \in [1..Cardinality(set) -> set] : \A i, j \in DOMAIN f : f[i] = f[j] => i = j}

\* fetchone() in place of fetchall(): at most one username is returned
handle_get_users_first(request, U, M, S) ==
  {Outcome([keys |-> {"status", "users"}, status |-> "success", message |-> "",
            messages |-> <<>>, users |-> IF order = <<>> THEN <<>> ELSE <<order[1]>>], U, M, S) :
     order \in Orders(DOMAIN U)}

handle_get_users(request, U, M, S) ==
  {Outcome([keys |-> {"status", "users"}, status |-> "success", message |-> "",
            messages |-> <<>>, users |-> order], U, M, S) :
     order \in Orders(DOMAIN U)}

\* ORDER BY id DESC
RECURSIVE SortByIdDesc(_)
SortByIdDesc(rows) ==
  IF rows = {} THEN <<>>
  ELSE LET first == CHOOSE r \in rows : \A q \in rows : r.id >= q.id
       IN  <<first>> \o SortByIdDesc(rows \ {first})

\* ORDER BY id ASC over the rows addressed to username.
RECURSIVE SortById(_)
SortById(rows) ==
  IF rows = {} THEN <<>>
  ELSE LET first == CHOOSE r \in rows : \A q \in rows : r.id <= q.id
       IN  <<first>> \o SortById(rows \ {first})

\* SELECT ... FROM mailbox ORDER BY id ASC, without the WHERE clause
SelectMail_all(M, username) == SortById({M[i] : i \in DOMAIN M})

SelectMail(M, username) ==
  SortById({M[i] : i \in {k \in DOMAIN M : M[k].to_username = PyStr(username)}})

\* a fetch that serves only after a LOGIN has been handled
handle_fetch_session(request, U, M, S) ==
  LET rows == SelectMail(M, request.username)
      messages == [i \in DOMAIN rows |->
                     [from |-> rows[i].from_username,
                      body |-> Blob(rows[i].body),
                      created_at |-> rows[i].created_at]]
  IN  IF ~Truthy(request.username) \/ ~Bindable(request.username)
           \/ ~HasUser(U, request.username)
        THEN {Outcome(Error("User not found"), U, M, S)}
      ELSE IF ~login_seen
        THEN {Outcome(Error("Not logged in"), U, M, S)}
      ELSE {Outcome([keys |-> {"status", "messages"}, status |-> "success",
                     message |-> "", messages |-> messages, users |-> <<>>], U, M, S)}

\* a fetch that deletes what it has delivered
handle_fetch_consuming(request, U, M, S) ==
  LET rows == SelectMail(M, request.username)
      messages == [i \in DOMAIN rows |->
                     [from |-> rows[i].from_username,
                      body |-> Blob(rows[i].body),
                      created_at |-> rows[i].created_at]]
      kept == SortById({M[i] : i \in {k \in DOMAIN M :
                                        M[k].to_username # PyStr(request.username)}})
  IN  IF ~Truthy(request.username) \/ ~Bindable(request.username)
           \/ ~HasUser(U, request.username)
        THEN {Outcome(Error("User not found"), U, M, S)}
      ELSE {Outcome([keys |-> {"status", "messages"}, status |-> "success",
                     message |-> "", messages |-> messages, users |-> <<>>], U, kept, S)}

handle_fetch(request, U, M, S) ==
  LET username == request.username
      rows == SelectMail(M, username)
      messages == [i \in DOMAIN rows |->
                     [from |-> rows[i].from_username,
                      body |-> Blob(rows[i].body),
                      created_at |-> rows[i].created_at]]
  IN  IF ~Truthy(username)
        THEN {Outcome(Error("Missing username"), U, M, S)}
      ELSE IF ~Bindable(username)
        THEN {Outcome(Error("Error binding parameter"), U, M, S)}
      ELSE IF ~HasUser(U, username)
        THEN {Outcome(Error("User not found"), U, M, S)}
      ELSE {Outcome([keys |-> {"status", "messages"}, status |-> "success",
                     message |-> "", messages |-> messages, users |-> <<>>], U, M, S)}

\* a router that answers an unknown action with the user list
handle_request_lenient(request, U, M, S) ==
  CASE request.action = "REQ::REGISTER" -> handle_register(request, U, M, S)
    [] request.action = "REQ::LOGIN" -> handle_login(request, U, M, S)
    [] request.action = "REQ::SEND" -> handle_send(request, U, M, S)
    [] request.action = "REQ::FETCH" -> handle_fetch(request, U, M, S)
    [] OTHER -> handle_get_users(request, U, M, S)

handle_request(request, U, M, S) ==
  CASE request.action = "REQ::REGISTER" -> handle_register(request, U, M, S)
    [] request.action = "REQ::LOGIN" -> handle_login(request, U, M, S)
    [] request.action = "REQ::SEND" -> handle_send(request, U, M, S)
    [] request.action = "REQ::FETCH" -> handle_fetch(request, U, M, S)
    [] request.action = "REQ::GET_USERS" -> handle_get_users(request, U, M, S)
    [] OTHER -> {Outcome(Error("Unknown action: " \o request.action), U, M, S)}

(***************************************************************************)
(* The program: main() constructs the server and calls start(); the        *)
(* request loop runs on its own thread; a signal calls stop().             *)
(***************************************************************************)
ServerInit ==
  /\ users = <<>>
  /\ mailbox = <<>>
  /\ mailbox_seq = 0
  /\ running = FALSE
  /\ main_pc = "constructed"
  /\ zmq_pc = "none"
  /\ sock = "recv"
  /\ message = NoMessage
  /\ response = NoResponse
  /\ svc_pc = "none"
  /\ svc_stop = FALSE
  /\ succeeded = {}
  /\ unanswered = 0
  /\ login_seen = FALSE
  /\ spawned = [calls |-> 0, zeromq |-> 0, service |-> 0]

\* No client-side call is in progress.
NoDes == [pc |-> "none"]
NoSteg == [pc |-> "none"]
NoBrowser == [pc |-> "none"]
\* self.des_key = None
NoKey == Err("None")
\* Client.__init__: nobody is logged in and no call has been made
NoSession ==
  [current_username |-> NULL, des_key |-> NoKey, via |-> "none", n |-> 0,
   call |-> "none", username |-> "", returned |-> NoResponse,
   before |-> [current_username |-> NULL, des_key |-> NoKey]]
ClientIdle ==
  /\ des = NoDes
  /\ steg = NoSteg
  /\ found_services = <<>>
  /\ browser = NoBrowser
  /\ servers = <<>>
  /\ session = NoSession

Init == ServerInit /\ ClientIdle

\* The process lives until sys.exit; its daemon threads end with it.
Alive == main_pc # "exited"

\* Server.start: sets running, starts the advertisement thread and the
\* request-loop thread, installs the signal handlers.
Start ==
  /\ main_pc = "constructed"
  /\ ~running
  /\ running' = TRUE
  /\ main_pc' = "serving"
  /\ svc_pc' = "registering"
  /\ zmq_pc' = "loop"
  /\ spawned' = [calls |-> spawned.calls + 1, zeromq |-> spawned.zeromq + 1,
                  service |-> spawned.service + 1]
  /\ UNCHANGED clientVars
  /\ UNCHANGED <<users, mailbox, mailbox_seq, sock, message, response, svc_stop, succeeded,
                 unanswered, login_seen>>

\* A signal arrives: _signal_handler calls Server.stop, which clears running,
\* sets the advertiser's stop flag and goes on to join the threads.
Stop ==
  /\ main_pc = "serving"
  /\ running
  /\ running' = FALSE
  /\ svc_stop' = TRUE
  /\ main_pc' = "join_service"
  /\ UNCHANGED <<clientVars, spawned>>
  /\ UNCHANGED <<users, mailbox, mailbox_seq, zmq_pc, sock, message, response, svc_pc,
                 succeeded, unanswered, login_seen>>

\* while True: the loop polls again whatever the flag says
LoopEnter_always ==
  /\ Alive
  /\ zmq_pc = "loop"
  /\ zmq_pc' = "poll"
  /\ UNCHANGED <<clientVars, spawned>>
  /\ UNCHANGED <<users, mailbox, mailbox_seq, running, main_pc, sock, message, response,
                 svc_pc, svc_stop, succeeded, unanswered, login_seen>>

\* while self.running: enter the poll.
LoopEnter ==
  /\ Alive
  /\ zmq_pc = "loop"
  /\ running
  /\ zmq_pc' = "poll"
  /\ UNCHANGED <<clientVars, spawned>>
  /\ UNCHANGED <<users, mailbox, mailbox_seq, running, main_pc, sock, message, response,
                 svc_pc, svc_stop, succeeded, unanswered, login_seen>>

\* while self.running is false: close the socket and end the thread.
LoopExit ==
  /\ Alive
  /\ zmq_pc = "loop"
  /\ ~running
  /\ zmq_pc' = "closed"
  /\ UNCHANGED <<clientVars, spawned>>
  /\ UNCHANGED <<users, mailbox, mailbox_seq, running, main_pc, sock, message, response,
                 svc_pc, svc_stop, succeeded, unanswered, login_seen>>

\* socket.poll(1000) returns 0: back to the loop test.
PollTimeout ==
  /\ Alive
  /\ zmq_pc = "poll"
  /\ zmq_pc' = "loop"
  /\ UNCHANGED <<clientVars, spawned>>
  /\ UNCHANGED <<users, mailbox, mailbox_seq, running, main_pc, sock, message, response,
                 svc_pc, svc_stop, succeeded, unanswered, login_seen>>

\* The requests that may add a mailbox row are held back once the mailbox
\* has MaxMailbox rows.
Admissible(m) ==
  Len(mailbox) < MaxMailbox \/ m.action \notin {"REQ::REGISTER", "REQ::SEND"}

\* a loop that polls again before it has sent the reply it owes
RecvGuard_early == zmq_pc \in {"poll", "reply"}

\* socket.poll reports a message and recv_string returns it.
RecvGuard == zmq_pc = "poll" /\ sock = "recv"

Recv(m) ==
  /\ Alive
  /\ RecvGuard
  /\ Admissible(m)
  /\ message' = m
  /\ sock' = "send"
  /\ unanswered' = unanswered + 1
  /\ zmq_pc' = "received"
  /\ UNCHANGED <<clientVars, spawned>>
  /\ UNCHANGED <<users, mailbox, mailbox_seq, running, main_pc, response, svc_pc, svc_stop,
                 succeeded, login_seen>>

\* no except clause in the loop: the exception ends the thread
ExceptTarget_uncaught == "closed"

\* except Exception as e: the loop's own handler
ExceptTarget == "except"

\* json.loads(message) and self._handle_request(request).  Text that is not
\* JSON raises in json.loads; JSON that is not an object raises at
\* request.get; both reach the loop's except clause.
Dispatch ==
  /\ Alive
  /\ zmq_pc = "received"
  /\ IF message.kind = "garbage"
       THEN /\ response' = Error("Expecting value: line 1 column 1 (char 0)")
            /\ zmq_pc' = ExceptTarget
            /\ UNCHANGED <<users, mailbox, mailbox_seq>>
     ELSE IF message.kind # "object"
       THEN /\ response' = Error("'list' object has no attribute 'get'")
            /\ zmq_pc' = ExceptTarget
            /\ UNCHANGED <<users, mailbox, mailbox_seq>>
     ELSE \E out \in handle_request(message, users, mailbox, mailbox_seq) :
            /\ response' = out.response
            /\ users' = out.users
            /\ mailbox' = out.mailbox
            /\ mailbox_seq' = out.mailbox_seq
            /\ zmq_pc' = "reply"
  /\ UNCHANGED <<clientVars, spawned>>
  /\ UNCHANGED <<running, main_pc, sock, message, svc_pc, svc_stop, succeeded, unanswered,
                 login_seen>>

\* socket.send_string(json.dumps(response))
SendReply ==
  /\ Alive
  /\ zmq_pc = "reply"
  /\ sock = "send"
  /\ sock' = "recv"
  /\ unanswered' = unanswered - 1
  /\ succeeded' = IF message.action = "REQ::REGISTER" /\ response.status = "success"
                  THEN succeeded \cup {message.username}
                  ELSE succeeded
  /\ login_seen' = (login_seen \/ message.action = "REQ::LOGIN")
  /\ message' = NoMessage
  /\ response' = NoResponse
  /\ zmq_pc' = "loop"
  /\ UNCHANGED <<clientVars, spawned>>
  /\ UNCHANGED <<users, mailbox, mailbox_seq, running, main_pc, svc_pc, svc_stop>>

\* except Exception: send the error response, then continue the loop.
SendError ==
  /\ Alive
  /\ zmq_pc = "except"
  /\ sock = "send"
  /\ sock' = "recv"
  /\ unanswered' = unanswered - 1
  /\ message' = NoMessage
  /\ response' = NoResponse
  /\ zmq_pc' = "loop"
  /\ UNCHANGED <<clientVars, spawned>>
  /\ UNCHANGED <<users, mailbox, mailbox_seq, running, main_pc, svc_pc, svc_stop, succeeded,
                 login_seen>>

Receive == \E m \in Messages : Recv(m)

Next ==
  \/ Start
  \/ Stop
  \/ LoopEnter
  \/ LoopExit
  \/ PollTimeout
  \/ Receive
  \/ Dispatch
  \/ SendReply
  \/ SendError

Spec == Init /\ [][Next]_vars

(***************************************************************************)
(* The whole life of the process: the advertisement thread                 *)
(* (ServiceRegister.register), the rest of Server.stop and sys.exit.  The  *)
(* joins of stop() wait two seconds at most: a join returns early when its *)
(* thread has ended and may time out while the thread is inside a call     *)
(* whose duration the program does not bound (zeroconf's register and      *)
(* unregister, a request handler); the advertiser's 0.1 s sleep and the    *)
(* 1 s poll are shorter than the timeout.                                  *)
(***************************************************************************)
Server == Str("server")

\* calls of start() in one life of the process
MaxStarts == 2

\* The requests of the life-cycle specification.
LifeMessages ==
  {Register(Server, Png(StegoA), b64encode(Ha)),
   Login(Server, b64encode(SubSeq(Ha, 1, 8))),
   Send(Server, Server, ClientBody(Server, Ha, "hello")),
   [Object("REQ::FETCH") EXCEPT !.username = Server],
   [Object("") EXCEPT !.kind = "garbage"]}

\* zc.register_service(serviceInfo) returns: the service is advertised.
SvcRegistered ==
  /\ Alive
  /\ svc_pc = "registering"
  /\ svc_pc' = "advertising"
  /\ UNCHANGED <<clientVars, spawned>>
  /\ UNCHANGED <<users, mailbox, mailbox_seq, running, main_pc, zmq_pc, sock, message,
                 response, svc_stop, succeeded, unanswered, login_seen>>

\* A failed registration that takes the server down with it: the running
\* flag is cleared, as if _register_service called stop().
SvcRegisterFails_stops ==
  /\ Alive
  /\ svc_pc = "registering"
  /\ svc_pc' = "failed"
  /\ running' = FALSE
  /\ UNCHANGED <<clientVars, spawned>>
  /\ UNCHANGED <<users, mailbox, mailbox_seq, main_pc, zmq_pc, sock, message,
                 response, svc_stop, succeeded, unanswered, login_seen>>

\* Zeroconf() or register_service raises: _register_service logs the error
\* and the thread ends with nothing advertised.
SvcRegisterFails ==
  /\ Alive
  /\ svc_pc = "registering"
  /\ svc_pc' = "failed"
  /\ UNCHANGED <<clientVars, spawned>>
  /\ UNCHANGED <<users, mailbox, mailbox_seq, running, main_pc, zmq_pc, sock, message,
                 response, svc_stop, succeeded, unanswered, login_seen>>

\* if self.stop: break - the loop is left and the finally clause begins.
SvcObserveStop ==
  /\ Alive
  /\ svc_pc = "advertising"
  /\ svc_stop
  /\ svc_pc' = "unregistering"
  /\ UNCHANGED <<clientVars, spawned>>
  /\ UNCHANGED <<users, mailbox, mailbox_seq, running, main_pc, zmq_pc, sock, message,
                 response, svc_stop, succeeded, unanswered, login_seen>>

\* zc.unregister_service(serviceInfo); zc.close(): the thread ends.
SvcUnregistered ==
  /\ Alive
  /\ svc_pc = "unregistering"
  /\ svc_pc' = "ended"
  /\ UNCHANGED <<clientVars, spawned>>
  /\ UNCHANGED <<users, mailbox, mailbox_seq, running, main_pc, zmq_pc, sock, message,
                 response, svc_stop, succeeded, unanswered, login_seen>>

\* The service is advertised from register_service until unregister_service.
Registered == svc_pc \in {"advertising", "unregistering"}

\* service_thread.join(timeout=2) returns because the thread has ended.
JoinService ==
  /\ main_pc = "join_service"
  /\ svc_pc \in {"ended", "failed"}
  /\ main_pc' = "join_zeromq"
  /\ UNCHANGED <<clientVars, spawned>>
  /\ UNCHANGED <<users, mailbox, mailbox_seq, running, zmq_pc, sock, message, response,
                 svc_pc, svc_stop, succeeded, unanswered, login_seen>>

\* service_thread.join(timeout=2) returns because the two seconds are over.
JoinServiceTimeout ==
  /\ main_pc = "join_service"
  /\ svc_pc \in {"registering", "unregistering"}
  /\ main_pc' = "join_zeromq"
  /\ UNCHANGED <<clientVars, spawned>>
  /\ UNCHANGED <<users, mailbox, mailbox_seq, running, zmq_pc, sock, message, response,
                 svc_pc, svc_stop, succeeded, unanswered, login_seen>>

\* zeromq_thread.join(timeout=2) returns because the thread has ended.
JoinZeromq ==
  /\ main_pc = "join_zeromq"
  /\ zmq_pc = "closed"
  /\ main_pc' = "stopped"
  /\ UNCHANGED <<clientVars, spawned>>
  /\ UNCHANGED <<users, mailbox, mailbox_seq, running, zmq_pc, sock, message, response,
                 svc_pc, svc_stop, succeeded, unanswered, login_seen>>

\* zeromq_thread.join() without a timeout: it never returns on its own
JoinZeromqTimeout_never ==
  /\ FALSE
  /\ UNCHANGED vars

\* zeromq_thread.join(timeout=2) returns because the two seconds are over.
JoinZeromqTimeout ==
  /\ main_pc = "join_zeromq"
  /\ zmq_pc \in {"received", "reply", "except"}
  /\ main_pc' = "stopped"
  /\ UNCHANGED <<clientVars, spawned>>
  /\ UNCHANGED <<users, mailbox, mailbox_seq, running, zmq_pc, sock, message, response,
                 svc_pc, svc_stop, succeeded, unanswered, login_seen>>

\* stop() has returned to _signal_handler: sys.exit(0).
Exit ==
  /\ main_pc = "stopped"
  /\ main_pc' = "exited"
  /\ UNCHANGED <<clientVars, spawned>>
  /\ UNCHANGED <<users, mailbox, mailbox_seq, running, zmq_pc, sock, message, response,
                 svc_pc, svc_stop, succeeded, unanswered, login_seen>>

\* A second signal while stop() is joining: the handler runs again on the
\* main thread, stop() returns at once (running is already false) and
\* sys.exit(0) unwinds the interrupted join.
SignalAgain ==
  /\ main_pc \in {"join_service", "join_zeromq"}
  /\ main_pc' = "exited"
  /\ UNCHANGED <<clientVars, spawned>>
  /\ UNCHANGED <<users, mailbox, mailbox_seq, running, zmq_pc, sock, message, response,
                 svc_pc, svc_stop, succeeded, unanswered, login_seen>>

ReceiveLife == \E m \in LifeMessages : Recv(m)

\* A repeated start() that starts its threads again.
StartAgain_spawns ==
  /\ Alive
  /\ running
  /\ spawned.calls < MaxStarts
  /\ spawned' = [calls |-> spawned.calls + 1, zeromq |-> spawned.zeromq + 1,
                 service |-> spawned.service + 1]
  /\ UNCHANGED clientVars
  /\ UNCHANGED <<users, mailbox, mailbox_seq, running, main_pc, zmq_pc, sock, message,
                 response, svc_pc, svc_stop, succeeded, unanswered, login_seen>>

\* start() is called while running is true: it logs that the server is
\* already running and returns.
StartAgain ==
  /\ Alive
  /\ running
  /\ spawned.calls < MaxStarts
  /\ spawned' = [spawned EXCEPT !.calls = @ + 1]
  /\ UNCHANGED clientVars
  /\ UNCHANGED <<users, mailbox, mailbox_seq, running, main_pc, zmq_pc, sock, message,
                 response, svc_pc, svc_stop, succeeded, unanswered, login_seen>>

LifeNext ==
  \/ Start
  \/ StartAgain
  \/ Stop
  \/ SvcRegistered
  \/ SvcRegisterFails
  \/ SvcObserveStop
  \/ SvcUnregistered
  \/ JoinService
  \/ JoinServiceTimeout
  \/ JoinZeromq
  \/ JoinZeromqTimeout
  \/ Exit
  \/ SignalAgain
  \/ LoopEnter
  \/ LoopExit
  \/ PollTimeout
  \/ ReceiveLife
  \/ Dispatch
  \/ SendReply
  \/ SendError

LifeSpec == Init /\ [][LifeNext]_vars

\* The steps the program's own timers bring about: a join(timeout=2)
\* returns, the advertiser's sleep(0.1) ends and it tests its stop flag,
\* poll(1000) returns, the loop tests self.running.  Nothing is assumed of
\* the request handlers or of zeroconf's register and unregister.
LifeFairSpec ==
  /\ LifeSpec
  /\ WF_vars(JoinService)
  /\ WF_vars(JoinServiceTimeout)
  /\ WF_vars(JoinZeromq)
  /\ WF_vars(JoinZeromqTimeout)
  /\ WF_vars(SvcObserveStop)
  /\ WF_vars(LoopExit)
  /\ WF_vars(PollTimeout \/ ReceiveLife)

(***************************************************************************)
(* A caller of the cipher: encrypt_des_cbc(k, p), then decrypt_des_cbc on  *)
(* what it returned.                                                       *)
(***************************************************************************)
MaxPlainChars == 3

\* 'A', 'e' with acute accent, the euro sign: one, two and three bytes
CodePoints == {65, 233, 8364}

\* every string of at most MaxPlainChars of them, and sixteen 'A's
Plaintexts ==
  UNION {[1..n -> CodePoints] : n \in 0..MaxPlainChars} \cup {[i \in 1..16 |-> 65]}

DesKeys ==
  {[i \in 1..8 |-> 0], [i \in 1..8 |-> (i * 37) % 256], [i \in 1..8 |-> 255]}
IVs ==
  {[i \in 1..8 |-> 0], [i \in 1..8 |-> (i * 83) % 256], [i \in 1..8 |-> 255]}

CryptoInit ==
  /\ ServerInit
  /\ steg = NoSteg
  /\ found_services = <<>>
  /\ browser = NoBrowser
  /\ servers = <<>>
  /\ session = NoSession
  /\ des \in {[pc |-> "ready", des_key |-> k, plaintext |-> p,
               iv_ciphertext |-> <<>>, result |-> Err("")] :
                k \in DesKeys, p \in Plaintexts}

\* encrypt_des_cbc(des_key, plaintext), with the IV get_random_bytes returns
DesEncrypt ==
  /\ des.pc = "ready"
  /\ \E iv \in IVs :
       LET r == encrypt_des_cbc_bytes(des.des_key, des.plaintext, iv)
       IN  des' = IF r.ok
                  THEN [des EXCEPT !.pc = "encrypted", !.iv_ciphertext = r.val]
                  ELSE [des EXCEPT !.pc = "failed", !.result = r]
  /\ UNCHANGED <<serverVars, session, steg, found_services, browser, servers>>

\* decrypt_des_cbc(des_key, iv_ciphertext)
DesDecrypt ==
  /\ des.pc = "encrypted"
  /\ des' = [des EXCEPT !.pc = "decrypted",
                        !.result = decrypt_des_cbc_bytes(des.des_key, des.iv_ciphertext)]
  /\ UNCHANGED <<serverVars, session, steg, found_services, browser, servers>>

CryptoNext ==
  \/ DesEncrypt
  \/ DesDecrypt

CryptoSpec == CryptoInit /\ [][CryptoNext]_vars

(***************************************************************************)
(* A caller of the codec: encode_hash_in_image(image, h, output), then     *)
(* decode_hash_from_image on the output file, possibly after somebody has  *)
(* flipped one of its length bits; or decode_hash_from_image on the image  *)
(* as it was.                                                              *)
(***************************************************************************)
\* width and height of the image files: 91 pixels in one row, in one column
\* and in a rectangle, the cover, 90 pixels, and images of a few pixels
Dims ==
  {<<91, 1>>, <<1, 91>>, <<7, 13>>, <<13, 7>>, <<CoverWidth, CoverHeight>>,
   <<90, 1>>, <<1, 90>>, <<9, 10>>, <<6, 1>>, <<2, 2>>, <<1, 1>>}

Fills == {"ramp", "white"}

\* an RGB image file of the given size
Raster(w, h, fill) ==
  [width |-> w, height |-> h,
   px |-> [k \in 1..(w * h * 3) |->
             IF fill = "ramp" THEN (k * 5) % 256 ELSE 255]]

Payloads == Hashes \cup {[i \in 1..HashLen |-> 0]}

\* the length bits somebody may flip in the output file
TamperSlots == {1, 8, 16}

Absent == NoImage

StegoInit ==
  /\ ServerInit
  /\ des = NoDes
  /\ found_services = <<>>
  /\ browser = NoBrowser
  /\ servers = <<>>
  /\ session = NoSession
  /\ steg \in {[pc |-> "ready", image |-> Raster(d[1], d[2], f), password_hash |-> h,
                output |-> Absent, encoded |-> Err(""), tampered |-> FALSE,
                examined |-> Absent, decoded |-> Err("")] :
                 d \in Dims, f \in Fills, h \in Payloads}

\* encode_hash_in_image(image_path, password_hash, output_path): raises, or
\* saves the output file
StegEncode ==
  /\ steg.pc = "ready"
  /\ LET r == encode_hash_in_image(steg.image, steg.password_hash)
     IN  steg' = IF r.ok
                 THEN [steg EXCEPT !.pc = "encoded", !.encoded = Ok(<<>>), !.output = r.val]
                 ELSE [steg EXCEPT !.pc = "refused", !.encoded = Err(r.err)]
  /\ UNCHANGED <<serverVars, session, des, found_services, browser, servers>>

\* the least significant bit of one channel byte of the output file is flipped
StegTamper ==
  /\ steg.pc = "encoded"
  /\ ~steg.tampered
  /\ \E k \in TamperSlots :
       steg' = [steg EXCEPT !.tampered = TRUE,
                            !.output.px[k] = IF @ % 2 = 0 THEN @ + 1 ELSE @ - 1]
  /\ UNCHANGED <<serverVars, session, des, found_services, browser, servers>>

\* decode_hash_from_image(output_path)
StegDecode ==
  /\ steg.pc = "encoded"
  /\ steg' = [steg EXCEPT !.pc = "decoded", !.examined = steg.output,
                          !.decoded = decode_hash_from_image(steg.output)]
  /\ UNCHANGED <<serverVars, session, des, found_services, browser, servers>>

\* decode_hash_from_image(image_path) on an image nothing was encoded into
StegDecodeRaw ==
  /\ steg.pc = "ready"
  /\ steg' = [steg EXCEPT !.pc = "decoded_raw", !.examined = steg.image,
                          !.decoded = decode_hash_from_image(steg.image)]
  /\ UNCHANGED <<serverVars, session, des, found_services, browser, servers>>

StegoNext ==
  \/ StegEncode
  \/ StegTamper
  \/ StegDecode
  \/ StegDecodeRaw

StegoSpec == StegoInit /\ [][StegoNext]_vars

(***************************************************************************)
(* Discovery: services.py's advertiser builds the ServiceInfo, client.py's *)
(* AllServicesListener collects what the browser reports during            *)
(* Client.discover_servers.  A str is the sequence of its characters, an   *)
(* address the text inet_ntoa gives.                                       *)
(***************************************************************************)
\* "stgserver": the identity main() constructs the server with, and APP_NAME
StgServerId == <<"s", "t", "g", "s", "e", "r", "v", "e", "r">>
APP_NAME == <<"s", "t", "g", "s", "e", "r", "v", "e", "r">>
DotLocal == <<".", "l", "o", "c", "a", "l">>

\* f"_{self.APP_NAME}._tcp.local."
serviceType == <<"_">> \o APP_NAME \o <<".", "_", "t", "c", "p">> \o DotLocal \o <<".">>

Port == 6161
Addrs == {"192.168.1.10", "192.168.1.11"}

\* What get_service_info resolved: nothing, or the server host, the IPv4
\* addresses and the port.
Info(server, addresses, port) ==
  [resolved |-> TRUE, server |-> server, addresses |-> addresses, port |-> port]
NoInfo == [resolved |-> FALSE, server |-> <<>>, addresses |-> <<>>, port |-> 0]

\* ServiceRegister.register: the ServiceInfo it registers
InstanceName(id) == id \o <<".">> \o serviceType
AdvertisedServer(id) == id \o DotLocal
ServiceInfo(id, addr, port) == Info(AdvertisedServer(id), <<addr>>, port)

\* another program on the LAN that answers for the same type, with no host
\* of its own or with a host called "nas.local", with or without an IPv4
\* address
ForeignName == <<"x", ".">> \o serviceType
ForeignInfos ==
  {Info(srv, a, Port) : srv \in {<<>>, <<"n", "a", "s">> \o DotLocal},
                        a \in {<<>>, <<"192.168.1.11">>}}

Names == {InstanceName(StgServerId), ForeignName}
Resolutions(name) ==
  IF name = ForeignName THEN {NoInfo} \cup ForeignInfos
  ELSE {NoInfo} \cup {ServiceInfo(StgServerId, a, Port) : a \in Addrs}

\* str.split(sep)
RECURSIVE split(_, _)
split(str, sep) ==
  IF \A i \in DOMAIN str : str[i] # sep THEN <<str>>
  ELSE LET k == CHOOSE i \in DOMAIN str : str[i] = sep /\ \A j \in 1..(i - 1) : str[j] # sep
       IN  <<SubSeq(str, 1, k - 1)>> \o split(SubSeq(str, k + 1, Len(str)), sep)

\* the record name taken to be the name the browser reported
service_name_raw(server, name) == name

\* info.server.split('.')[0] if info.server else name.split('.')[0]
service_name(server, name) ==
  IF server # <<>> THEN split(server, ".")[1] ELSE split(name, ".")[1]

\* a test that finds no duplicate
Duplicate_never(found, name, addresses) == "no"

\* any(s['name'] == service_name and s['addresses'][0] == addresses[0] ...):
\* "yes", "no", or "raise" when an empty address list is indexed
RECURSIVE DuplicateFrom(_, _, _, _)
DuplicateFrom(found, i, name, addresses) ==
  IF i > Len(found) THEN "no"
  ELSE IF found[i].name # name THEN DuplicateFrom(found, i + 1, name, addresses)
  ELSE IF found[i].addresses = <<>> \/ addresses = <<>> THEN "raise"
  ELSE IF found[i].addresses[1] = addresses[1] THEN "yes"
  ELSE DuplicateFrom(found, i + 1, name, addresses)

Duplicate(found, name, addresses) == DuplicateFrom(found, 1, name, addresses)

\* AllServicesListener.add_service: the list afterwards (an IndexError
\* leaves it as it was)
add_service(found, type_, name, info) ==
  IF ~info.resolved THEN found
  ELSE LET addresses == info.addresses
           service_info == [name |-> service_name(info.server, name), type |-> type_,
                            addresses |-> addresses, port |-> info.port,
                            server |-> info.server]
       IN  IF Duplicate(found, service_info.name, addresses) = "no"
           THEN Append(found, service_info)
           ELSE found

\* AllServicesListener.remove_service
remove_service(found, type_, name) ==
  SelectSeq(found, LAMBDA s : s.name # name)

NoEvent == [kind |-> "none", name |-> <<>>, info |-> NoInfo]

DiscoveryInit ==
  /\ ServerInit
  /\ des = NoDes
  /\ steg = NoSteg
  /\ found_services = <<>>
  /\ servers = <<>>
  /\ session = NoSession
  /\ browser = [pc |-> "ready", last |-> [n \in Names |-> "none"], event |-> NoEvent]

\* Client.discover_servers: Zeroconf(), AllServicesListener(), ServiceBrowser
DiscoverStart ==
  /\ browser.pc = "ready"
  /\ browser' = [browser EXCEPT !.pc = "browsing"]
  /\ found_services' = <<>>
  /\ UNCHANGED <<serverVars, session, des, steg, servers>>

\* the browser reports a service and the listener resolves it
ServiceAdded ==
  /\ browser.pc = "browsing"
  /\ \E name \in Names : \E info \in Resolutions(name) :
       /\ found_services' = add_service(found_services, serviceType, name, info)
       /\ browser' = [browser EXCEPT !.last[name] = "added",
                                     !.event = [kind |-> "added", name |-> name, info |-> info]]
  /\ UNCHANGED <<serverVars, session, des, steg, servers>>

\* the browser reports that a service is gone
ServiceRemoved ==
  /\ browser.pc = "browsing"
  /\ \E name \in Names :
       /\ found_services' = remove_service(found_services, serviceType, name)
       /\ browser' = [browser EXCEPT !.last[name] = "removed",
                                     !.event = [kind |-> "removed", name |-> name, info |-> NoInfo]]
  /\ UNCHANGED <<serverVars, session, des, steg, servers>>

\* update_service: pass
ServiceUpdated ==
  /\ browser.pc = "browsing"
  /\ \E name \in Names :
       browser' = [browser EXCEPT !.event = [kind |-> "updated", name |-> name, info |-> NoInfo]]
  /\ UNCHANGED <<serverVars, session, des, steg, found_services, servers>>

\* time.sleep(timeout) is over: zc.close() and the list formatted for the UI
DiscoverReturn ==
  /\ browser.pc = "browsing"
  /\ browser' = [browser EXCEPT !.pc = "returned"]
  /\ servers' = [i \in DOMAIN found_services |->
                   LET service == found_services[i]
                   IN  [name |-> service.name,
                        address |-> IF service.addresses # <<>> THEN service.addresses[1]
                                    ELSE "N/A",
                        port |-> service.port,
                        server |-> service.server]]
  /\ UNCHANGED <<serverVars, session, des, steg, found_services>>

DiscoveryNext ==
  \/ DiscoverStart
  \/ ServiceAdded
  \/ ServiceRemoved
  \/ ServiceUpdated
  \/ DiscoverReturn

DiscoverySpec == DiscoveryInit /\ [][DiscoveryNext]_vars

(***************************************************************************)
(* client.py: a Client connected to a serving server.  Each call of        *)
(* register, login and send_message is one request on the REQ socket and   *)
(* the reply to it; the server handles the request as _handle_request      *)
(* does.  Other clients register too.                                      *)
(***************************************************************************)
MaxCalls == 3

\* a hash that shares its first eight bytes with Ha and no others
Hc == [i \in 1..HashLen |-> IF i <= PrefixLen THEN Ha[i] ELSE 0]

Usernames == {"alice", "bob"}
\* the picture_path argument: a file holding an RGB image (one of them too
\* small for the payload), or no file
PictureFiles == {Cover, Raster(2, 2, "white"), Absent}

\* encode_hash_in_image on each picture file and each hash a password has
EncodedPictures ==
  [picture \in PictureFiles \ {Absent} |->
     [password_hash \in Hashes |-> encode_hash_in_image(picture, password_hash)]]

\* REQ::REGISTER requests of other client programs
OtherRegisters ==
  {Register(Alice, Png(encode_hash_in_image(Cover, Hc).val), b64encode(Hc))}

\* The server receives request, handles it and sends out.response.
Exchange(request, out) ==
  /\ users' = out.users
  /\ mailbox' = out.mailbox
  /\ mailbox_seq' = out.mailbox_seq
  /\ succeeded' = IF request.action = "REQ::REGISTER" /\ out.response.status = "success"
                  THEN succeeded \cup {request.username}
                  ELSE succeeded
  /\ login_seen' = (login_seen \/ request.action = "REQ::LOGIN")
  /\ UNCHANGED <<running, main_pc, zmq_pc, sock, message, response, svc_pc, svc_stop,
                 unanswered, spawned>>

\* A call begins: what the session held is remembered (history).
Entered(call, username) ==
  [session EXCEPT !.n = @ + 1, !.call = call, !.username = username,
                  !.before = [current_username |-> session.current_username,
                              des_key |-> session.des_key]]

\* Client.register(username, password, picture_path)
SessRegister ==
  /\ session.n < MaxCalls
  /\ \E username \in Usernames, password \in Passwords, picture \in PictureFiles :
       LET password_hash == hash_password(password)
           assigned == [Entered("register", username) EXCEPT
                          !.des_key = derive_des_key(Str(username), password_hash),
                          !.current_username = Str(username),
                          !.via = "register"]
           encoded == EncodedPictures[picture][password_hash]
           request == Register(Str(username), Png(encoded.val), b64encode(password_hash))
       IN  IF picture = Absent
             THEN /\ session' = [assigned EXCEPT !.returned = Error("Picture file not found")]
                  /\ UNCHANGED serverVars
           ELSE IF ~encoded.ok
             THEN /\ session' = [assigned EXCEPT
                                   !.returned = Error("Steganography error: " \o encoded.err)]
                  /\ UNCHANGED serverVars
           ELSE \E out \in handle_request(request, users, mailbox, mailbox_seq) :
                  /\ Exchange(request, out)
                  /\ session' = [assigned EXCEPT !.returned = out.response]
  /\ UNCHANGED <<des, steg, found_services, browser, servers>>

\* Client.login(username, password)
SessLogin ==
  /\ session.n < MaxCalls
  /\ \E username \in Usernames, password \in Passwords :
       LET password_hash == hash_password(password)
           request == login_request(Str(username), password)
           entered == Entered("login", username)
       IN  \E out \in handle_request(request, users, mailbox, mailbox_seq) :
             /\ Exchange(request, out)
             /\ session' = IF out.response.status = "success"
                           THEN [entered EXCEPT
                                   !.returned = out.response,
                                   !.des_key = derive_des_key(Str(username), password_hash),
                                   !.current_username = Str(username),
                                   !.via = "login"]
                           ELSE [entered EXCEPT !.returned = out.response]
  /\ UNCHANGED <<des, steg, found_services, browser, servers>>

\* Client.send_message(to_username, plaintext)
SessSend ==
  /\ session.n < MaxCalls
  /\ \E to_username \in Usernames :
       LET entered == Entered("send", to_username)
           iv_ct == encrypt_des_cbc(session.des_key.val, "hello", ClientIV)
           request == Send(session.current_username, Str(to_username), Blob(iv_ct))
       IN  IF ~Truthy(session.current_username)
             THEN /\ session' = [entered EXCEPT !.returned = Error("Not logged in")]
                  /\ UNCHANGED serverVars
           ELSE IF ~session.des_key.ok
             THEN /\ session' = [entered EXCEPT
                                   !.returned = Error("No encryption key available")]
                  /\ UNCHANGED serverVars
           ELSE \E out \in handle_request(request, users, mailbox, mailbox_seq) :
                  /\ Exchange(request, out)
                  /\ session' = [entered EXCEPT !.returned = out.response]
  /\ UNCHANGED <<des, steg, found_services, browser, servers>>

\* Another client's REQ::REGISTER is received, handled and answered.
OtherRegister ==
  /\ \E request \in OtherRegisters :
       \E out \in handle_request(request, users, mailbox, mailbox_seq) :
         Exchange(request, out)
  /\ UNCHANGED clientVars

\* The server is serving: start() has run, the service is advertised and
\* the request loop polls.
SessionInit ==
  /\ users = <<>>
  /\ mailbox = <<>>
  /\ mailbox_seq = 0
  /\ running = TRUE
  /\ main_pc = "serving"
  /\ zmq_pc = "poll"
  /\ sock = "recv"
  /\ message = NoMessage
  /\ response = NoResponse
  /\ svc_pc = "advertising"
  /\ svc_stop = FALSE
  /\ succeeded = {}
  /\ unanswered = 0
  /\ login_seen = FALSE
  /\ spawned = [calls |-> 1, zeromq |-> 1, service |-> 1]
  /\ ClientIdle

SessionNext ==
  \/ SessRegister
  \/ SessLogin
  \/ SessSend
  \/ OtherRegister

SessionSpec == SessionInit /\ [][SessionNext]_vars

(***************************************************************************)
(* Vocabulary of the properties                                            *)
(***************************************************************************)
\* the handler for message has returned and its reply is about to be sent
Replying(action) ==
  zmq_pc = "reply" /\ message.kind = "object" /\ message.action = action

\* the 32-byte (or whatever was stored) hash of identity u
StoredHash(u) == b64decode(users[u].password_hash).val.cs

\* deriveKey(u, stored hash of u)
KeyOf(u) == [salt |-> u, pw |-> StoredHash(u)]

\* H[a:b] as Python slices it
Slice(H, a, b) ==
  SubSeq(H, a + 1, IF Len(H) < b THEN Len(H) ELSE b)

(***************************************************************************)
(* C1 (as stated).  Once a REGISTER for u has returned success, every      *)
(* later REGISTER for u, whatever picture and password_hash it carries,    *)
(* returns status=error with the message "Username already exists".        *)
(***************************************************************************)
C1_DuplicateAlwaysSaysExists ==
  (Replying("REQ::REGISTER") /\ message.username \in succeeded)
    => (response.status = "error" /\ response.message = "Username already exists")

(***************************************************************************)
(* C1 (amended).  Once a REGISTER for u has returned success, every later  *)
(* REGISTER for u returns status=error; the message is "Username already   *)
(* exists" when the request carries a non-empty picture, whatever the      *)
(* picture and password_hash are, and "Missing required fields" when the   *)
(* picture is absent or empty.                                             *)
(***************************************************************************)
C1_DuplicateRejected ==
  (Replying("REQ::REGISTER") /\ message.username \in succeeded)
    => /\ response.status = "error"
       /\ response.message = IF Truthy(message.picture)
                             THEN "Username already exists"
                             ELSE "Missing required fields"

\* a second REGISTER for a registered name, carrying another hash and picture
C1_Witness ==
  /\ Replying("REQ::REGISTER")
  /\ message.username \in succeeded
  /\ Truthy(message.picture)
  /\ message.picture # Png(StegoA)
  /\ message.password_hash # users[PyStr(message.username)].password_hash
  /\ response.message = "Username already exists"

C3_StoredHashIsEmbedded ==
  (Replying("REQ::REGISTER") /\ response.status = "success")
    => StoredHash(PyStr(message.username))
         = decode_hash_from_image(message.picture.img).val

(***************************************************************************)
(* C4.  If registered user s sends SEND to registered user r with a body   *)
(* that is the encryption of p under deriveKey(s, stored hash of s), the   *)
(* request returns success and the newly persisted envelope (to=r, from=s) *)
(* has a body that decrypts under deriveKey(r, stored hash of r) to p.     *)
(***************************************************************************)
C4_SendRelayRoundTrip ==
  [][(/\ zmq_pc = "received" /\ zmq_pc' # "received"
      /\ message.kind = "object" /\ message.action = "REQ::SEND"
      /\ message.from.t = "str" /\ HasUser(users, message.from)
      /\ message.to.t = "str" /\ HasUser(users, message.to)
      /\ message.body.t = "blob"
      /\ message.body.blob.key = KeyOf(PyStr(message.from)))
     => (/\ response'.status = "success"
         /\ Len(mailbox') = Len(mailbox) + 1
         /\ SubSeq(mailbox', 1, Len(mailbox)) = mailbox
         /\ LET envelope == mailbox'[Len(mailbox')]
            IN  /\ envelope.to_username = PyStr(message.to)
                /\ envelope.from_username = PyStr(message.from)
                /\ decrypt_des_cbc(KeyOf(PyStr(message.to)), Cipher(envelope.body))
                     = {Returned(message.body.blob.pt)})]_vars

\* alice's "hello" relayed to bob, who holds another key
C4_Witness ==
  /\ Replying("REQ::SEND")
  /\ message.from = Alice /\ message.to = Bob
  /\ response.status = "success"
  /\ message.body.blob.key = KeyOf("alice")
  /\ StoredHash("alice") # StoredHash("bob")
  /\ mailbox[Len(mailbox)].body.pt = "hello"
  /\ mailbox[Len(mailbox)].body.key = KeyOf("bob")

(***************************************************************************)
(* C5.  FETCH returns a user's envelopes in ascending insertion order: if  *)
(* envelope a addressed to u was persisted before envelope b addressed to  *)
(* u, then a precedes b in the result of every later FETCH for u.          *)
(***************************************************************************)
AsReturned(row) ==
  [from |-> row.from_username, body |-> Blob(row.body), created_at |-> row.created_at]

C5_FetchInsertionOrder ==
  (Replying("REQ::FETCH") /\ response.status = "success")
    => \A i, j \in DOMAIN mailbox :
         (/\ i < j
          /\ mailbox[i].to_username = PyStr(message.username)
          /\ mailbox[j].to_username = PyStr(message.username))
           => \E a, b \in DOMAIN response.messages :
                /\ a < b
                /\ response.messages[a] = AsReturned(mailbox[i])
                /\ response.messages[b] = AsReturned(mailbox[j])

\* a FETCH that returns two envelopes of one user, stored around another's
C5_Witness ==
  /\ Replying("REQ::FETCH")
  /\ response.status = "success"
  /\ Len(response.messages) >= 2
  /\ Len(mailbox) > Len(response.messages)

(***************************************************************************)
(* C6 (as stated).  A LOGIN with a non-empty username and a non-empty      *)
(* password_hash_prefix that does not succeed gets the same reply          *)
(* (status=error, "Invalid username or password") whether the username is  *)
(* unregistered or registered with a non-matching hash.                    *)
(***************************************************************************)
C6_LoginFailureUniform ==
  (/\ Replying("REQ::LOGIN")
   /\ message.username.t = "str" /\ Truthy(message.username)
   /\ message.password_hash_prefix.t = "txt" /\ Truthy(message.password_hash_prefix)
   /\ response.status # "success")
    => response = Error("Invalid username or password")

(***************************************************************************)
(* C7.  After any received message - text that is not JSON, JSON that is   *)
(* not an object, a request with missing or malformed fields, a request    *)
(* whose handler raises - the loop replies with a structured error and     *)
(* goes on to receive the next request; only running = false ends it.      *)
(***************************************************************************)
Structured(r) ==
  /\ r.status \in {"success", "error"}
  /\ "status" \in r.keys
  /\ r.status = "error" => ("message" \in r.keys /\ r.message # "")

\* requests the handlers cannot serve: a required field is missing or has a
\* type or an encoding the handler cannot use
Malformed(m) ==
  \/ m.kind # "object"
  \/ m.action \notin {"REQ::REGISTER", "REQ::LOGIN", "REQ::SEND", "REQ::FETCH", "REQ::GET_USERS"}
  \/ m.action = "REQ::REGISTER"
       /\ (m.username.t \in {"null", "list"} \/ m.picture.t # "png" \/ m.password_hash.t # "txt"
           \/ ~b64decode(m.password_hash).ok)
  \/ m.action = "REQ::LOGIN"
       /\ (m.username.t \in {"null", "list"} \/ m.password_hash_prefix.t # "txt"
           \/ ~b64decode(m.password_hash_prefix).ok)
  \/ m.action = "REQ::SEND"
       /\ (m.from.t # "str" \/ m.to.t # "str" \/ m.body.t # "blob")
  \/ m.action = "REQ::FETCH" /\ m.username.t \in {"null", "list"}

C7_LoopSurvivesAnyMessage ==
  /\ [](zmq_pc \in {"reply", "except"}
          => /\ Structured(response)
             /\ Malformed(message) => response.status = "error"
             /\ sock = "send")
  /\ [][zmq_pc = "received" => zmq_pc' \in {"received", "reply", "except"}]_vars
  /\ [][(zmq_pc \in {"reply", "except"} /\ zmq_pc' # zmq_pc)
          => (zmq_pc' = "loop" /\ sock' = "recv" /\ unanswered' = unanswered - 1)]_vars
  /\ [][(zmq_pc' = "closed" /\ zmq_pc # "closed") => (zmq_pc = "loop" /\ ~running)]_vars
  /\ []((zmq_pc = "loop" /\ running) => ENABLED LoopEnter)
  /\ []((zmq_pc = "poll" /\ Alive) => ENABLED Receive)

\* the error reply to text that is not JSON, after an earlier request was served
C7_Witness ==
  /\ zmq_pc = "except"
  /\ message.kind = "garbage"
  /\ response.status = "error"
  /\ succeeded # {}
  /\ running

(***************************************************************************)
(* C8.  The server handles requests one at a time: between receiving a     *)
(* request and sending its reply no other request is received and no       *)
(* other handler runs, so the store operations of two handlers never       *)
(* interleave.                                                             *)
(***************************************************************************)
C8_OneInFlight ==
  /\ [](unanswered \in {0, 1})
  /\ []((unanswered = 1) <=> (zmq_pc \in {"received", "reply", "except"}))
  /\ []((unanswered = 1) <=> (sock = "send"))
  /\ [][unanswered' > unanswered => (unanswered = 0 /\ zmq_pc = "poll")]_vars
  /\ [][(users' # users \/ mailbox' # mailbox \/ mailbox_seq' # mailbox_seq)
          => (zmq_pc = "received" /\ zmq_pc' = "reply" /\ unanswered = 1
              /\ message' = message)]_vars

\* a handler has changed both stores and its reply is still owed
C8_Witness ==
  /\ zmq_pc = "reply"
  /\ unanswered = 1
  /\ sock = "send"
  /\ message.action = "REQ::REGISTER"
  /\ response.status = "success"
  /\ Len(mailbox) = 2

(***************************************************************************)
(* C9 (as stated).  Every REGISTER that returns success has added exactly  *)
(* one envelope, from 'server' to the new username, whose body decrypts    *)
(* under deriveKey(username, stored hash) to the welcome text.             *)
(***************************************************************************)
C9_WelcomeEnvelopeOnSuccess ==
  [][(/\ zmq_pc = "received" /\ zmq_pc' = "reply"
      /\ message.kind = "object" /\ message.action = "REQ::REGISTER"
      /\ response'.status = "success")
     => (/\ Len(mailbox') = Len(mailbox) + 1
         /\ SubSeq(mailbox', 1, Len(mailbox)) = mailbox
         /\ LET envelope == mailbox'[Len(mailbox')]
            IN  /\ envelope.from_username = "server"
                /\ envelope.to_username = PyStr(message.username)
                /\ envelope.body.pt = WelcomeText)]_vars

(***************************************************************************)
(* C10 (as stated).  For an unused username and a picture that carries a   *)
(* valid embedded 32-byte hash, REGISTER returns success for every value   *)
(* of password_hash: equal to the embedded hash, different from it, or     *)
(* absent.                                                                 *)
(***************************************************************************)
C10_PasswordHashAdvisory ==
  (/\ Replying("REQ::REGISTER")
   /\ message.username.t = "str" /\ Truthy(message.username)
   /\ message.username \notin succeeded
   /\ message.picture.t = "png"
   /\ decode_hash_from_image(message.picture.img).ok
   /\ \/ message.password_hash.t = "null"
      \/ b64decode(message.password_hash).ok)
    => response.status = "success"

(***************************************************************************)
(* C11.  A SEND that returns status=error - a field is missing, the sender *)
(* or the recipient is not registered, or the body does not decrypt under  *)
(* the sender's key - persists no envelope: the mailbox and the users      *)
(* store are unchanged.                                                    *)
(***************************************************************************)
C11_FailedSendStoresNothing ==
  [][(/\ zmq_pc = "received" /\ zmq_pc' = "reply"
      /\ message.kind = "object" /\ message.action = "REQ::SEND"
      /\ response'.status = "error")
     => (mailbox' = mailbox /\ mailbox_seq' = mailbox_seq /\ users' = users)]_vars

\* bob's ciphertext sent in alice's name is refused and both mailboxes stay
C11_Witness ==
  /\ Replying("REQ::SEND")
  /\ response = Error("Server could not decrypt message with sender key")
  /\ HasUser(users, message.from) /\ HasUser(users, message.to)
  /\ message.body.t = "blob"
  /\ message.body.blob.key # KeyOf(PyStr(message.from))
  /\ Len(mailbox) = 2
  /\ \A i \in DOMAIN mailbox : mailbox[i].from_username = "server"

(***************************************************************************)
(* C12.  Once an identity is created its stored password hash and picture  *)
(* path never change: no request modifies or deletes an identity row.      *)
(***************************************************************************)
C12_IdentityNeverMutated ==
  [][\A u \in DOMAIN users : u \in DOMAIN users' /\ users'[u] = users[u]]_vars

\* a later REGISTER under alice's name with another hash has been answered
C12_Witness ==
  /\ Replying("REQ::REGISTER")
  /\ message.username = Alice
  /\ Alice \in succeeded
  /\ message.picture = Png(StegoA)
  /\ message.password_hash = b64encode(Hb)
  /\ users["alice"] = [password_hash |-> b64encode(Ha), picture_path |-> PicturePath(Alice)]
  /\ Len(mailbox) >= 2

(***************************************************************************)
(* C13.  No request removes or alters a persisted envelope: the mailbox    *)
(* changes only by appending, and FETCH leaves the mailbox and the users   *)
(* store unchanged.                                                        *)
(***************************************************************************)
C13_MailboxAppendOnly ==
  /\ [][/\ Len(mailbox') >= Len(mailbox)
        /\ SubSeq(mailbox', 1, Len(mailbox)) = mailbox]_vars
  /\ [][(/\ zmq_pc = "received" /\ zmq_pc' # "received"
         /\ message.kind = "object" /\ message.action = "REQ::FETCH")
        => (mailbox' = mailbox /\ mailbox_seq' = mailbox_seq /\ users' = users)]_vars

\* a FETCH has delivered an envelope and the envelope is still in the mailbox
C13_Witness ==
  /\ Replying("REQ::FETCH")
  /\ response.status = "success"
  /\ Len(response.messages) >= 1
  /\ \E i \in DOMAIN mailbox :
       /\ mailbox[i].to_username = PyStr(message.username)
       /\ mailbox[i].from_username # "server"

(***************************************************************************)
(* C14.  FETCH for a registered username u returns exactly the envelopes   *)
(* whose recipient is u - none of another user, none omitted - each with   *)
(* its stored sender and timestamp and with the base64 of its stored body  *)
(* bytes.                                                                  *)
(***************************************************************************)
Delivers(m, row) ==
  /\ m.from = row.from_username
  /\ m.created_at = row.created_at
  /\ b64decode(m.body) = Ok(Cipher(row.body))

C14_FetchExactlyOwnEnvelopes ==
  (Replying("REQ::FETCH") /\ HasUser(users, message.username))
    => LET own == {i \in DOMAIN mailbox : mailbox[i].to_username = PyStr(message.username)}
       IN  /\ response.status = "success"
           /\ Len(response.messages) = Cardinality(own)
           /\ \A i \in own : \E k \in DOMAIN response.messages :
                Delivers(response.messages[k], mailbox[i])
           /\ \A k \in DOMAIN response.messages : \E i \in own :
                Delivers(response.messages[k], mailbox[i])

\* alice fetches while the mailbox also holds an envelope addressed to bob
C14_Witness ==
  /\ Replying("REQ::FETCH")
  /\ message.username = Alice
  /\ response.status = "success"
  /\ Len(response.messages) >= 1
  /\ \E i \in DOMAIN mailbox : mailbox[i].to_username = "bob"

(***************************************************************************)
(* C15.  Every reply - to any action and any field values, missing or      *)
(* malformed ones included - is an object whose status is exactly          *)
(* 'success' or 'error', and every reply with status 'error' carries a     *)
(* message.                                                                *)
(***************************************************************************)
C15_ReplyShape ==
  (zmq_pc \in {"reply", "except"})
    => /\ "status" \in response.keys
       /\ response.status \in {"success", "error"}
       /\ (response.status = "error") => ("message" \in response.keys)

\* the reply to an action the server does not know
C15_Witness ==
  /\ zmq_pc = "reply"
  /\ message.action = "REQ::BOGUS"
  /\ response.status = "error"
  /\ "message" \in response.keys

(***************************************************************************)
(* C16 (as stated).  After a shutdown signal has set running false and the *)
(* advertiser's stop flag true, the advertisement loop and the request     *)
(* loop both observe it and leave their loops (no handler blocking         *)
(* forever).  Nothing runs after the process has exited, so by then        *)
(* neither loop may still be waiting in its loop.                          *)
(***************************************************************************)
C16_LoopsLeaveAfterShutdown ==
  (main_pc = "exited")
    => (zmq_pc \notin {"loop", "poll"} /\ svc_pc # "advertising")

(***************************************************************************)
(* C17 (as stated).  In every execution in which the service was           *)
(* registered and a shutdown signal is handled, the service is             *)
(* unregistered before the advertisement thread ends and before the        *)
(* process exits: once the process has exited the service is no longer     *)
(* registered.  (The thread itself ends only after unregister_service.)    *)
(***************************************************************************)
C17_UnregisteredBeforeExit ==
  (main_pc = "exited") => ~Registered

(***************************************************************************)
(* C18.  The server keeps no session: FETCH and SEND for registered users  *)
(* succeed whether or not any LOGIN preceded them.                         *)
(***************************************************************************)
Servable(m) ==
  \/ /\ m.action = "REQ::FETCH"
     /\ HasUser(users, m.username)
  \/ /\ m.action = "REQ::SEND"
     /\ m.from.t = "str" /\ HasUser(users, m.from)
     /\ m.to.t = "str" /\ HasUser(users, m.to)
     /\ m.body.t = "blob"
     /\ m.body.blob.key = KeyOf(PyStr(m.from))

C18_NoSessionNeeded ==
  /\ (zmq_pc = "reply" /\ message.kind = "object" /\ Servable(message) /\ ~login_seen)
       => response.status = "success"
  /\ (zmq_pc = "reply" /\ message.kind = "object" /\ Servable(message) /\ login_seen)
       => response.status = "success"

\* alice's mail is fetched although no LOGIN was ever sent
C18_Witness ==
  /\ Replying("REQ::FETCH")
  /\ ~login_seen
  /\ message.username = Alice
  /\ response.status = "success"
  /\ Len(response.messages) >= 1

(***************************************************************************)
(* C19 (as stated).  'server' is only a synthetic sender: the users store  *)
(* never holds an identity whose username is 'server', so every envelope   *)
(* with from='server' is a system-authored welcome envelope.               *)
(***************************************************************************)
C19_ServerIsNotAnIdentity ==
  /\ "server" \notin DOMAIN users
  /\ \A i \in DOMAIN mailbox :
       (mailbox[i].from_username = "server") => (mailbox[i].body.pt = WelcomeText)

(***************************************************************************)
(* C20.  GET_USERS always returns status=success with users equal to the   *)
(* set of usernames whose REGISTER has succeeded so far (the empty list    *)
(* when there are none), and changes neither store.                        *)
(***************************************************************************)
C20_GetUsersListsRegistered ==
  /\ [](Replying("REQ::GET_USERS")
          => /\ response.status = "success"
             /\ "users" \in response.keys
             /\ {response.users[i] : i \in DOMAIN response.users}
                  = {PyStr(u) : u \in succeeded}
             /\ Len(response.users) = Cardinality(succeeded))
  /\ [][(/\ zmq_pc = "received" /\ zmq_pc' # "received"
         /\ message.kind = "object" /\ message.action = "REQ::GET_USERS")
        => (mailbox' = mailbox /\ mailbox_seq' = mailbox_seq /\ users' = users)]_vars

\* both registered names are listed
C20_Witness ==
  /\ Replying("REQ::GET_USERS")
  /\ succeeded = {Alice, Bob}
  /\ Len(response.users) = 2

(***************************************************************************)
(* C21.  A request (a JSON object) whose action is absent or is none of    *)
(* the five known actions is answered with status=error and the message    *)
(* "Unknown action: <action>", and changes neither store.                  *)
(***************************************************************************)
KnownActions ==
  {"REQ::REGISTER", "REQ::LOGIN", "REQ::SEND", "REQ::FETCH", "REQ::GET_USERS"}

C21_UnknownActionRejected ==
  /\ []((zmq_pc = "reply" /\ message.kind = "object" /\ message.action \notin KnownActions)
          => /\ response.status = "error"
             /\ response.keys = {"status", "message"}
             /\ response.message = "Unknown action: " \o message.action)
  /\ [][(/\ zmq_pc = "received" /\ zmq_pc' # "received"
         /\ message.kind = "object" /\ message.action \notin KnownActions)
        => (mailbox' = mailbox /\ mailbox_seq' = mailbox_seq /\ users' = users)]_vars

\* a request without an action, answered while both stores hold rows
C21_Witness ==
  /\ zmq_pc = "reply"
  /\ message.kind = "object"
  /\ message.action = ""
  /\ response.message = "Unknown action: "
  /\ Len(mailbox) >= 1
  /\ DOMAIN users # {}

(***************************************************************************)
(* C22.  During login neither the full 32-byte hash nor the derived key    *)
(* crosses the wire: the request Client.login builds carries only the      *)
(* action, the username and the first 8 bytes of the hash, and the reply   *)
(* to it carries only status and message.                                  *)
(***************************************************************************)
RequestFields ==
  {"username", "password_hash", "picture", "password_hash_prefix", "from", "to", "body"}

\* the fields a request carries besides its action
Present(m) == {f \in RequestFields : m[f] # NULL}

\* the byte strings a request carries in base64
OnWire(m) ==
  {b64decode(m[f]).val.cs : f \in {g \in Present(m) : m[g].t = "txt" /\ b64decode(m[g]).ok}}

C22_LoginCarriesPrefixOnly ==
  \A u \in {Alice, Bob}, p \in Passwords :
    LET m == login_request(u, p)
        h == hash_password(p)
    IN  (zmq_pc \in {"received", "reply"} /\ message = m)
          => /\ Present(m) = {"username", "password_hash_prefix"}
             /\ m.username = u
             /\ OnWire(m) = {SubSeq(h, 1, 8)}
             /\ \A bs \in OnWire(m) : Len(bs) = 8 /\ bs # h
             /\ (zmq_pc = "reply")
                  => /\ response.keys = {"status", "message"}
                     /\ response.message \in {"Login successful",
                                              "Invalid username or password"}

\* alice's own login request has been accepted
C22_Witness ==
  /\ Replying("REQ::LOGIN")
  /\ message = login_request(Alice, "pw-a")
  /\ response.status = "success"
  /\ StoredHash("alice") = Ha

(***************************************************************************)
(* C23.  For every 8-byte key k and every UTF-8 string p, the empty string *)
(* and strings whose byte length is a multiple of 8 included,              *)
(* decrypt(k, encrypt(k, p)) returns exactly p, whatever IV encrypt drew.  *)
(***************************************************************************)
C23_DesRoundTrip ==
  (des.pc = "decrypted") => (des.result = Ok(des.plaintext))

\* a plaintext of exactly one block (two euro signs and an accented e), so
\* that a whole block of padding was added and removed
C23_Witness ==
  /\ des.pc = "decrypted"
  /\ Len(des.plaintext) = 3
  /\ Len(utf8_encode(des.plaintext)) = BlockSize
  /\ Len(des.iv_ciphertext) = 3 * BlockSize
  /\ SubSeq(des.iv_ciphertext, BlockSize + 1, 2 * BlockSize) # utf8_encode(des.plaintext)
  /\ des.result = Ok(des.plaintext)

(***************************************************************************)
(* C24.  For any RGB image of at least 91 pixels, of any width and height, *)
(* and any 32-byte payload h, decode(encode(img, h)) returns exactly h.    *)
(***************************************************************************)
Pixels(img) == img.width * img.height

C24_StegoRoundTrip ==
  /\ (steg.pc = "refused") => Pixels(steg.image) < 91
  /\ (steg.pc = "decoded" /\ ~steg.tampered /\ Pixels(steg.image) >= 91)
       => steg.decoded = Ok(steg.password_hash)

\* 91 pixels in a single column: every bit slot lies in a row of its own
C24_Witness ==
  /\ steg.pc = "decoded"
  /\ ~steg.tampered
  /\ steg.image.width = 1 /\ steg.image.height = 91
  /\ steg.password_hash = Ha
  /\ steg.decoded = Ok(Ha)
  /\ steg.output # steg.image

(***************************************************************************)
(* C25.  encode on an image with width*height*3 < 272 always fails with    *)
(* an insufficient-capacity error and writes no output image; on any image *)
(* with width*height*3 >= 272 it succeeds.                                 *)
(***************************************************************************)
EncodeReturned == steg.pc \in {"encoded", "refused", "decoded"}

C25_CapacityBoundary ==
  EncodeReturned =>
    IF steg.image.width * steg.image.height * 3 < 272
    THEN /\ steg.pc = "refused"
         /\ steg.encoded = Err("Image too small")
         /\ steg.output = Absent
    ELSE /\ steg.pc # "refused"
         /\ steg.encoded.ok
         /\ steg.output # Absent
         /\ steg.output.width = steg.image.width
         /\ steg.output.height = steg.image.height

\* 90 pixels hold 270 bits, two short of the 272 needed
C25_Witness ==
  /\ steg.pc = "refused"
  /\ steg.image.width * steg.image.height * 3 = 270
  /\ steg.output = Absent

(***************************************************************************)
(* C26.  decode fails with an invalid-length error, returning no payload,  *)
(* for every image whose first 16 bit-slots (the LSBs in raster order,     *)
(* channels R, G, B, most significant bit first) encode a value other than *)
(* 256.                                                                    *)
(***************************************************************************)
DecodeReturned == steg.pc \in {"decoded", "decoded_raw"}

\* 2^n
RECURSIVE Pow2(_)
Pow2(n) == IF n = 0 THEN 1 ELSE 2 * Pow2(n - 1)

\* the value of the first 16 bit-slots: px holds the channel bytes in raster
\* order, so slot i is the LSB of the i-th of them
LengthField(img) ==
  LET RECURSIVE Sum(_)
      Sum(i) == IF i = 0 THEN 0 ELSE Sum(i - 1) + (img.px[i] % 2) * Pow2(LengthBits - i)
  IN  Sum(LengthBits)

HasLengthField(img) == Len(img.px) >= LengthBits

C26_DecodeRejectsBadLength ==
  (DecodeReturned /\ HasLengthField(steg.examined) /\ LengthField(steg.examined) # 256)
    => steg.decoded = Err("Invalid hash length")

\* an encoded image one of whose length bits was flipped afterwards: the
\* payload is still in it, the length reads 257
C26_Witness ==
  /\ steg.pc = "decoded"
  /\ steg.tampered
  /\ LengthField(steg.examined) = 257
  /\ steg.decoded = Err("Invalid hash length")

(***************************************************************************)
(* C27.  Every persisted envelope addressed to u has a body that decrypts  *)
(* under deriveKey(u, stored hash of u): the mailbox holds only ciphertext *)
(* under the recipient's key, never the sender's ciphertext and never      *)
(* plaintext.                                                              *)
(***************************************************************************)
C27_MailboxUnderRecipientKey ==
  /\ [](\A i \in DOMAIN mailbox :
          LET envelope == mailbox[i]
          IN  /\ envelope.to_username \in DOMAIN users
              /\ envelope.body.key = KeyOf(envelope.to_username)
              /\ decrypt_des_cbc(KeyOf(envelope.to_username), Cipher(envelope.body))
                   = {Returned(envelope.body.pt)})
  /\ [][(/\ zmq_pc = "received" /\ zmq_pc' = "reply"
         /\ message.kind = "object" /\ message.action = "REQ::SEND"
         /\ Len(mailbox') > Len(mailbox))
        => (/\ mailbox'[Len(mailbox')].body # message.body.blob
            /\ mailbox'[Len(mailbox')].body.iv = ServerIV(mailbox_seq))]_vars

\* alice's message to bob, who holds another key, next to the welcome
\* envelopes
C27_Witness ==
  /\ Len(mailbox) = 3
  /\ mailbox[3].from_username = "alice"
  /\ mailbox[3].to_username = "bob"
  /\ mailbox[3].body.pt = "hello"
  /\ KeyOf("alice") # KeyOf("bob")
  /\ mailbox[3].body.key = KeyOf("bob")

(***************************************************************************)
(* C28 (as stated).  After a 'service removed' event for a service the     *)
(* accumulated list contains no record of that service, so a service that  *)
(* was added and then removed within the discovery window is absent from   *)
(* the list discover_servers returns.                                      *)
(***************************************************************************)
\* the names a record of the service called name may carry
LabelsOf(name) ==
  {service_name(info.server, name) : info \in Resolutions(name) \ {NoInfo}}

C28_RemovedServiceAbsent ==
  \A name \in Names :
    (browser.pc \in {"browsing", "returned"} /\ browser.last[name] = "removed")
      => /\ \A i \in DOMAIN found_services : found_services[i].name \notin LabelsOf(name)
         /\ \A i \in DOMAIN servers : servers[i].name \notin LabelsOf(name)

(***************************************************************************)
(* C29.  After any sequence of 'service added' and 'service removed'       *)
(* events in one discovery session the accumulated list holds no two       *)
(* records with the same (identity label, first resolved address) pair,    *)
(* and a repeated 'added' event for an already-recorded pair leaves the    *)
(* list unchanged.                                                         *)
(***************************************************************************)
FirstAddress(addresses) == IF addresses = <<>> THEN "N/A" ELSE addresses[1]
Pair(name, addresses) == <<name, FirstAddress(addresses)>>
PairOf(s) == Pair(s.name, s.addresses)

C29_NoDuplicateRecords ==
  /\ [](\A i, j \in DOMAIN found_services :
          PairOf(found_services[i]) = PairOf(found_services[j]) => i = j)
  /\ [][(/\ browser.pc = "browsing" /\ browser'.pc = "browsing"
         /\ browser'.event.kind = "added"
         /\ browser'.event.info.resolved
         /\ \E i \in DOMAIN found_services :
              PairOf(found_services[i])
                = Pair(service_name(browser'.event.info.server, browser'.event.name),
                       browser'.event.info.addresses))
        => found_services' = found_services]_vars

\* the service recorded first has been added again after two others
C29_Witness ==
  /\ browser.pc = "browsing"
  /\ Len(found_services) = 3
  /\ browser.event.kind = "added"
  /\ browser.event.info.resolved
  /\ PairOf(found_services[1])
       = Pair(service_name(browser.event.info.server, browser.event.name),
              browser.event.info.addresses)

(***************************************************************************)
(* C30.  For a server advertised with identity id, the discoverer's record *)
(* for it has name equal to id: the first dot-separated label of the       *)
(* advertised server field is the identity the advertiser was constructed  *)
(* with.                                                                   *)
(***************************************************************************)
\* the identities the program constructs its advertiser with
Ids == {StgServerId}

C31_StopTerminates ==
  (main_pc \in {"join_service", "join_zeromq"}) ~> (main_pc \in {"stopped", "exited"})

\* stop() has returned although the advertiser is still unregistering and a
\* request is still inside its handler
C31_Witness ==
  /\ main_pc = "stopped"
  /\ svc_pc = "unregistering"
  /\ zmq_pc = "received"


(***************************************************************************)
(* C32.  When the registration of the service has failed, the request      *)
(* loop keeps receiving and answering requests and the control thread      *)
(* keeps running until shutdown is signalled: as long as stop() has not    *)
(* been called the running flag is set, the request loop is live, a        *)
(* polling loop can receive and a computed reply can be sent.              *)
(***************************************************************************)
C32_ServesWithoutAdvertisement ==
  (svc_pc = "failed" /\ main_pc = "serving") =>
     /\ running
     /\ zmq_pc \in {"loop", "poll", "received", "reply", "except"}
     /\ (zmq_pc = "loop") => ENABLED LoopEnter
     /\ (zmq_pc = "poll") => ENABLED ReceiveLife
     /\ (zmq_pc = "received" /\ message.kind = "object") =>
           handle_request(message, users, mailbox, mailbox_seq) # {}
     /\ (zmq_pc = "reply") => ENABLED SendReply

\* with no service advertised a registration request has been handled and
\* its success is about to be sent
C32_Witness ==
  /\ svc_pc = "failed"
  /\ main_pc = "serving"
  /\ zmq_pc = "reply"
  /\ response.status = "success"


(***************************************************************************)
(* C33.  encode changes only the least-significant bits of the first 272   *)
(* bit-slots (slot i is channel i%3 of pixel i/3 in raster order): the     *)
(* image keeps its shape, the upper seven bits of every channel byte are   *)
(* those of the input, and every channel byte at slot 272 or beyond is     *)
(* the input's byte.                                                       *)
(***************************************************************************)
C33_EncodeTouchesLsbOnly ==
  (steg.pc = "encoded" /\ ~steg.tampered) =>
     /\ steg.output.width = steg.image.width
     /\ steg.output.height = steg.image.height
     /\ DOMAIN steg.output.px = DOMAIN steg.image.px
     /\ \A k \in DOMAIN steg.image.px :
          /\ steg.output.px[k] \div 2 = steg.image.px[k] \div 2
          /\ (k - 1 >= RequiredBits) => steg.output.px[k] = steg.image.px[k]

\* an image with channel bytes beyond the payload was encoded into, and
\* encode did change a least-significant bit
C33_Witness ==
  /\ steg.pc = "encoded"
  /\ ~steg.tampered
  /\ Len(steg.image.px) > RequiredBits
  /\ \E k \in 1..RequiredBits : steg.output.px[k] # steg.image.px[k]


(***************************************************************************)
(* C34.  A Client holds a current username and key only for an identity    *)
(* the server has accepted: when register or login has returned            *)
(* status=error, the session's current_username and des_key are what they  *)
(* were before the call.                                                   *)
(***************************************************************************)
C34_FailedCallLeavesSession ==
  (session.call \in {"register", "login"} /\ session.returned.status = "error") =>
     /\ session.current_username = session.before.current_username
     /\ session.des_key = session.before.des_key

(***************************************************************************)
(* C35.  Whenever Client.login(u, password) has returned status=success,   *)
(* the key the session stores is the key the server derives for u from     *)
(* its stored hash, and a message the session then encrypts and sends as   *)
(* u is decrypted by the SEND handler.                                     *)
(***************************************************************************)
C35_LoginKeyIsServerKey ==
  /\ (session.call = "login" /\ session.returned.status = "success") =>
        session.des_key = get_user_des_key(session.current_username, users)
  /\ (session.call = "send" /\ session.via = "login") =>
        session.returned.message \notin
          {"Sender not found or key unavailable",
           "Server could not decrypt message with sender key"}


(***************************************************************************)
(* C36.  A REQ::REGISTER that returns status=error adds no identity row    *)
(* and no envelope: the users store and the mailbox are exactly as they    *)
(* were before the request.                                                *)
(***************************************************************************)
C36_FailedRegisterStoresNothing ==
  [][(/\ zmq_pc = "received" /\ zmq_pc' \in {"reply", "except"}
      /\ message.kind = "object" /\ message.action = "REQ::REGISTER"
      /\ response'.status = "error")
     => (users' = users /\ mailbox' = mailbox /\ mailbox_seq' = mailbox_seq)]_vars

\* a registration for a free username is refused for its picture, and the
\* stores hold what they held: bob's row and bob's welcome envelope
C36_Witness ==
  /\ Replying("REQ::REGISTER")
  /\ response.status = "error"
  /\ response.message # "Username already exists"
  /\ message.username = Alice
  /\ Truthy(message.picture)
  /\ DOMAIN users = {"bob"}
  /\ Len(mailbox) = 1


(***************************************************************************)
(* C37.  Every request the server receives gets exactly one reply before   *)
(* the server polls for the next request or leaves the loop: at most one   *)
(* request is unanswered at any time, none is unanswered when the loop     *)
(* tests its flag, polls or has been left, and none is left unanswered     *)
(* when the process ends - a request being handled when the running flag   *)
(* is cleared included.                                                    *)
(***************************************************************************)
C37_EveryRequestAnsweredOnce ==
  /\ unanswered \in {0, 1}
  /\ (zmq_pc \in {"loop", "poll", "closed"}) => unanswered = 0
  /\ (main_pc = "exited") => unanswered = 0


(***************************************************************************)
(* C38.  Every persisted envelope's recipient is a username that was       *)
(* registered when the envelope was stored, and its sender is either a     *)
(* registered username or the literal 'server'.  (Rows of the users store  *)
(* are never removed, so a name registered then is registered now.)        *)
(***************************************************************************)
C38_EnvelopePartiesRegistered ==
  \A i \in DOMAIN mailbox :
    /\ mailbox[i].to_username \in DOMAIN users
    /\ mailbox[i].from_username \in DOMAIN users \cup {"server"}

\* alice is the only identity and holds her welcome envelope and one she
\* sent herself; her SEND to bob, who is not registered, is being refused
C38_Witness ==
  /\ Replying("REQ::SEND")
  /\ message.from = Alice /\ message.to = Bob
  /\ response = Error("Recipient not found or key unavailable")
  /\ DOMAIN users = {"alice"}
  /\ \E i, j \in DOMAIN mailbox :
       /\ mailbox[i].from_username = "server"
       /\ mailbox[j].from_username = "alice"


\* threads started and not yet ended; the end of the process ends them all
RequestLoopsLive ==
  IF main_pc = "exited" THEN 0
  ELSE spawned.zeromq - (IF zmq_pc = "closed" THEN 1 ELSE 0)
AdvertisementLoopsLive ==
  IF main_pc = "exited" THEN 0
  ELSE spawned.service - (IF svc_pc \in {"ended", "failed"} THEN 1 ELSE 0)

FlagCleared == ~running /\ main_pc # "constructed"

(***************************************************************************)
(* C40.  After the running flag has become false the request loop begins   *)
(* handling at most one further request, one that arrives during the poll  *)
(* already in progress, and then leaves.  A request begins to be handled   *)
(* only out of a poll; once the flag is cleared and the loop is not in a   *)
(* poll it never polls again, and when it tests the cleared flag it        *)
(* leaves.  So only the poll in progress when the flag was cleared can     *)
(* still deliver a request.                                                *)
(***************************************************************************)
C40_AtMostOneAfterFlagCleared ==
  [][/\ (zmq_pc # "received" /\ zmq_pc' = "received") => zmq_pc = "poll"
     /\ (FlagCleared /\ zmq_pc # "poll") => (FlagCleared' /\ zmq_pc' # "poll")
     /\ (FlagCleared /\ zmq_pc = "loop") => zmq_pc' \in {"loop", "closed"}]_vars

\* the flag is cleared, stop() is joining the request thread, and a request
\* has been handled and is about to be answered
C40_Witness ==
  /\ FlagCleared
  /\ main_pc = "join_zeromq"
  /\ zmq_pc = "reply"
  /\ response.status = "success"

=============================================================================
